---- MODULE Spec2Model ----
(***************************************************************************)
(* Model of the DOCX text projection and span rewriting engine of          *)
(* backend/anonymizer.py (RunInfo, RegexAnonymizer).                        *)
(*                                                                         *)
(* A document is the python-docx object tree reduced to what the code      *)
(* reads and writes: body paragraphs, tables (rows, cells, paragraphs),    *)
(* sections (header and footer paragraphs), runs (text, formatting, page   *)
(* break marker) and the core properties.  Texts are sequences of          *)
(* one-character strings.  Indices stored in locator paths are 0-based as  *)
(* in the source; sequences are 1-based, hence the "+ 1" on every access.  *)
(***************************************************************************)
EXTENDS Integers, Sequences, FiniteSets, TLC

\* ------------------------------------------------------------------ bounds
MaxParas == 2
MaxSections == 2
MaxEnts == 2
MaxSpan == 2
MaxFaults == 1
MaxPages == 2

\* ------------------------------------------------------------ small helpers
\* A locator that designates no run resolves to None; a path of the wrong
\* shape makes the tuple unpacking of get_run raise ValueError, which get_run
\* does not catch.
None == [none |-> TRUE]
ValueError == [raises |-> "ValueError"]

Min(a, b) == IF a < b THEN a ELSE b
Max(a, b) == IF a > b THEN a ELSE b

SeqsUpTo(S, n) == UNION {[1..k -> S] : k \in 0..n}
NonEmptySeqsUpTo(S, n) == UNION {[1..k -> S] : k \in 1..n}

\* Python slice s[a:b] for 0 <= a, 0 <= b (indices clamp to the length).
PySlice(s, a, b) == SubSeq(s, Min(a, Len(s)) + 1, Min(b, Len(s)))
\* Python slice s[:a] and s[b:].
PyPrefix(s, a) == PySlice(s, 0, a)
PySuffix(s, b) == PySlice(s, b, Len(s))

NL == <<"\n">>
TAB == <<"\t">>
Separators == {"\n", "\t"}

\* --------------------------------------------------------- document values
Run(t, f, b) == [text |-> t, fmt |-> f, pb |-> b]
Para(rs, s) == [runs |-> rs, sect |-> s]
Cell(ps) == [paragraphs |-> ps]
Row(cs) == [cells |-> cs]
Table(rs) == [rows |-> rs]
Part(ps) == [paragraphs |-> ps]
Section(h, f) == [header |-> Part(h), footer |-> Part(f)]
Core(a, t, s) == [author |-> a, title |-> t, subject |-> s]
Doc(ps, ts, ss, c) ==
    [paragraphs |-> ps, tables |-> ts, sections |-> ss, core_properties |-> c]

\* ------------------------------------------------------------------ RunInfo
RunInfo(start, end, page, section, path) ==
    [start |-> start, end |-> end, page |-> page, section |-> section, path |-> path]

\* RunInfo.get_run: the run the locator path designates in d, or None.
\* (The variant resolves every locator to the first run of its paragraph.)
get_run_wrong_index(path, d) ==
    LET kind == path[1] IN
    IF kind = "body" THEN
        IF path[2] < Len(d.paragraphs) /\ 0 < Len(d.paragraphs[path[2] + 1].runs)
        THEN d.paragraphs[path[2] + 1].runs[1]
        ELSE None
    ELSE IF kind = "table" THEN
        IF /\ path[2] < Len(d.tables)
           /\ path[3] < Len(d.tables[path[2] + 1].rows)
           /\ path[4] < Len(d.tables[path[2] + 1].rows[path[3] + 1].cells)
        THEN LET cell == d.tables[path[2] + 1].rows[path[3] + 1].cells[path[4] + 1] IN
             IF path[5] < Len(cell.paragraphs) /\ 0 < Len(cell.paragraphs[path[5] + 1].runs)
             THEN cell.paragraphs[path[5] + 1].runs[1]
             ELSE None
        ELSE None
    ELSE IF kind = "header" THEN
        IF /\ path[2] < Len(d.sections)
           /\ path[3] < Len(d.sections[path[2] + 1].header.paragraphs)
           /\ 0 < Len(d.sections[path[2] + 1].header.paragraphs[path[3] + 1].runs)
        THEN d.sections[path[2] + 1].header.paragraphs[path[3] + 1].runs[1]
        ELSE None
    ELSE IF kind = "footer" THEN
        IF /\ path[2] < Len(d.sections)
           /\ path[3] < Len(d.sections[path[2] + 1].footer.paragraphs)
           /\ 0 < Len(d.sections[path[2] + 1].footer.paragraphs[path[3] + 1].runs)
        THEN d.sections[path[2] + 1].footer.paragraphs[path[3] + 1].runs[1]
        ELSE None
    ELSE None

get_run(path, d) ==
    IF Len(path) = 0 THEN None ELSE
    LET kind == path[1] IN
    IF kind = "body" /\ Len(path) # 3 THEN ValueError
    ELSE IF kind = "table" /\ Len(path) # 6 THEN ValueError
    ELSE IF kind \in {"header", "footer"} /\ Len(path) # 4 THEN ValueError
    ELSE IF kind = "body" THEN
        IF path[2] < Len(d.paragraphs) /\ path[3] < Len(d.paragraphs[path[2] + 1].runs)
        THEN d.paragraphs[path[2] + 1].runs[path[3] + 1]
        ELSE None
    ELSE IF kind = "table" THEN
        IF /\ path[2] < Len(d.tables)
           /\ path[3] < Len(d.tables[path[2] + 1].rows)
           /\ path[4] < Len(d.tables[path[2] + 1].rows[path[3] + 1].cells)
        THEN LET cell == d.tables[path[2] + 1].rows[path[3] + 1].cells[path[4] + 1] IN
             IF path[5] < Len(cell.paragraphs) /\ path[6] < Len(cell.paragraphs[path[5] + 1].runs)
             THEN cell.paragraphs[path[5] + 1].runs[path[6] + 1]
             ELSE None
        ELSE None
    ELSE IF kind = "header" THEN
        IF /\ path[2] < Len(d.sections)
           /\ path[3] < Len(d.sections[path[2] + 1].header.paragraphs)
           /\ path[4] < Len(d.sections[path[2] + 1].header.paragraphs[path[3] + 1].runs)
        THEN d.sections[path[2] + 1].header.paragraphs[path[3] + 1].runs[path[4] + 1]
        ELSE None
    ELSE IF kind = "footer" THEN
        IF /\ path[2] < Len(d.sections)
           /\ path[3] < Len(d.sections[path[2] + 1].footer.paragraphs)
           /\ path[4] < Len(d.sections[path[2] + 1].footer.paragraphs[path[3] + 1].runs)
        THEN d.sections[path[2] + 1].footer.paragraphs[path[3] + 1].runs[path[4] + 1]
        ELSE None
    ELSE None

\* ------------------------------------------------------- docx_text_mapping
\* The units of the document whose traversal raises (malformed structure),
\* named by the prefix of the locators below them: <<"body", p>> is a body
\* paragraph whose runs cannot be listed, <<"table", t>> a table without rows,
\* <<"table", t, row>> a row without cells, <<"table", t, row, cell>> a cell
\* without paragraphs, <<"header", s>> a header without paragraphs, and a full
\* locator a run whose text cannot be read.
VARIABLE faults

Raises(unit) == unit \in faults

\* The locals of docx_text_mapping, threaded through the traversal; "raised"
\* is set while an exception travels to the nearest enclosing try.
ProjStart ==
    [parts |-> <<>>, mapping |-> <<>>, pos |-> 0, page |-> 0, section |-> 0,
     raised |-> FALSE]

Throw(st) == [st EXCEPT !.raised = TRUE]
Catch(st) == [st EXCEPT !.raised = FALSE]

\* add_run: append the run's text and its RunInfo, advance pos; the page
\* counter moves after the entry is recorded.  A run whose text cannot be
\* read leaves everything as it was (except: return page_val).
\* (The variant advances pos one short of the end of a longer text.)
add_run_stale_pos(st, run, path, section_val) ==
    IF Raises(path) THEN st ELSE
    LET text == run.text
        start == st.pos
        end == start + Len(text)
    IN [st EXCEPT !.parts = @ \o text,
                  !.mapping = Append(@, RunInfo(start, end, st.page, section_val, path)),
                  !.pos = IF Len(text) > 1 THEN end - 1 ELSE end,
                  !.page = IF run.pb THEN @ + 1 ELSE @]

\* (The variant moves the page counter before it records the entry.)
add_run_page_first(st, run, path, section_val) ==
    IF Raises(path) THEN st ELSE
    LET text == run.text
        start == st.pos
        end == start + Len(text)
        page_val == IF run.pb THEN st.page + 1 ELSE st.page
    IN [st EXCEPT !.parts = @ \o text,
                  !.mapping = Append(@, RunInfo(start, end, page_val, section_val, path)),
                  !.pos = end,
                  !.page = page_val]

add_run(st, run, path, section_val) ==
    IF Raises(path) THEN st ELSE
    LET text == run.text
        start == st.pos
        end == start + Len(text)
    IN [st EXCEPT !.parts = @ \o text,
                  !.mapping = Append(@, RunInfo(start, end, st.page, section_val, path)),
                  !.pos = end,
                  !.page = IF run.pb THEN @ + 1 ELSE @]

\* add_sep: append a separator that belongs to no run.
\* (The variant forgets to advance pos.)
add_sep_no_advance(st, text) == [st EXCEPT !.parts = @ \o text]

add_sep(st, text) == [st EXCEPT !.parts = @ \o text, !.pos = @ + Len(text)]

\* for r_idx, run in enumerate(para.runs): page = add_run(run, prefix + (r_idx,), ...)
RECURSIVE loop_runs(_, _, _, _, _)
loop_runs(st, runs, prefix, r_idx, section_val) ==
    IF r_idx >= Len(runs) THEN st
    ELSE loop_runs(add_run(st, runs[r_idx + 1], Append(prefix, r_idx), section_val),
                   runs, prefix, r_idx + 1, section_val)

\* The paragraph loop of a cell, a header or a footer: runs, then "\n"
\* between paragraphs.  There is no try inside it: a paragraph whose runs
\* cannot be listed ends the loop with the exception.
RECURSIVE loop_paras(_, _, _, _, _)
loop_paras(st, paras, prefix, p_idx, section_val) ==
    IF p_idx >= Len(paras) THEN st
    ELSE IF Raises(Append(prefix, p_idx)) THEN Throw(st)
    ELSE LET s1 == loop_runs(st, paras[p_idx + 1].runs, Append(prefix, p_idx), 0, section_val)
             s2 == IF p_idx < Len(paras) - 1 THEN add_sep(s1, NL) ELSE s1
         IN loop_paras(s2, paras, prefix, p_idx + 1, section_val)

\* The body loop: runs, "\n" between paragraphs, then the section-break check.
\* The try is per paragraph: a failing one is left by "continue", before its
\* separator and its section-break check.
RECURSIVE loop_body(_, _, _)
loop_body(st, paras, p_idx) ==
    IF p_idx >= Len(paras) THEN st
    ELSE IF Raises(<<"body", p_idx>>) THEN loop_body(st, paras, p_idx + 1)
    ELSE LET para == paras[p_idx + 1]
             s1 == loop_runs(st, para.runs, <<"body", p_idx>>, 0, st.section)
             s2 == IF p_idx < Len(paras) - 1 THEN add_sep(s1, NL) ELSE s1
             s3 == IF para.sect THEN [s2 EXCEPT !.section = @ + 1] ELSE s2
         IN loop_body(s3, paras, p_idx + 1)

project_body(st, d) ==
    LET s1 == loop_body(st, d.paragraphs, 0)
    IN IF Len(d.paragraphs) > 0 THEN add_sep(s1, NL) ELSE s1

RECURSIVE loop_cells(_, _, _, _, _)
loop_cells(st, cells, t_idx, row_idx, cell_idx) ==
    IF cell_idx >= Len(cells) THEN st
    ELSE IF Raises(<<"table", t_idx, row_idx, cell_idx>>) THEN Throw(st)
    ELSE LET s1 == loop_paras(st, cells[cell_idx + 1].paragraphs,
                              <<"table", t_idx, row_idx, cell_idx>>, 0, st.section)
             s2 == IF cell_idx < Len(cells) - 1 THEN add_sep(s1, TAB) ELSE s1
         IN IF s1.raised THEN s1
            ELSE loop_cells(s2, cells, t_idx, row_idx, cell_idx + 1)

RECURSIVE loop_rows(_, _, _, _)
loop_rows(st, rows, t_idx, row_idx) ==
    IF row_idx >= Len(rows) THEN st
    ELSE IF Raises(<<"table", t_idx, row_idx>>) THEN Throw(st)
    ELSE LET s1 == loop_cells(st, rows[row_idx + 1].cells, t_idx, row_idx, 0)
             s2 == IF row_idx < Len(rows) - 1 THEN add_sep(s1, NL) ELSE s1
         IN IF s1.raised THEN s1
            ELSE loop_rows(s2, rows, t_idx, row_idx + 1)

\* The try is per table: an exception raised anywhere below it ends that
\* table (what was appended stays) and skips the separator after it.
RECURSIVE loop_tables(_, _, _)
loop_tables(st, tables, t_idx) ==
    IF t_idx >= Len(tables) THEN st
    ELSE IF Raises(<<"table", t_idx>>) THEN loop_tables(st, tables, t_idx + 1)
    ELSE LET s1 == loop_rows(st, tables[t_idx + 1].rows, t_idx, 0)
             s2 == IF t_idx < Len(tables) - 1 THEN add_sep(s1, NL) ELSE s1
         IN IF s1.raised THEN loop_tables(Catch(s1), tables, t_idx + 1)
            ELSE loop_tables(s2, tables, t_idx + 1)

project_tables(st, d) == loop_tables(st, d.tables, 0)

\* The footer loop, the same as the header loop below on sec.footer.
RECURSIVE loop_footers(_, _, _)
loop_footers(st, sections, sec_idx) ==
    IF sec_idx >= Len(sections) THEN st
    ELSE IF Raises(<<"footer", sec_idx>>) THEN loop_footers(st, sections, sec_idx + 1)
    ELSE LET paras == sections[sec_idx + 1].footer.paragraphs
             s1 == loop_paras(st, paras, <<"footer", sec_idx>>, 0, sec_idx)
             s2 == IF Len(paras) > 0 THEN add_sep(s1, NL) ELSE s1
         IN IF s1.raised THEN loop_footers(Catch(s1), sections, sec_idx + 1)
            ELSE loop_footers(s2, sections, sec_idx + 1)

project_footers(st, d) == loop_footers(st, d.sections, 0)

\* (The variant gives header entries the section counter, as body and table
\* entries have it.)
RECURSIVE loop_headers_counter(_, _, _)
loop_headers_counter(st, sections, sec_idx) ==
    IF sec_idx >= Len(sections) THEN st
    ELSE LET paras == sections[sec_idx + 1].header.paragraphs
             s1 == loop_paras(st, paras, <<"header", sec_idx>>, 0, st.section)
             s2 == IF Len(paras) > 0 THEN add_sep(s1, NL) ELSE s1
         IN loop_headers_counter(s2, sections, sec_idx + 1)

\* for sec_idx, sec in enumerate(doc.sections): header paragraphs, then "\n"
\* when the header has paragraphs.  The section id of an entry is sec_idx.
\* The try is per section.
RECURSIVE loop_headers(_, _, _)
loop_headers(st, sections, sec_idx) ==
    IF sec_idx >= Len(sections) THEN st
    ELSE IF Raises(<<"header", sec_idx>>) THEN loop_headers(st, sections, sec_idx + 1)
    ELSE LET paras == sections[sec_idx + 1].header.paragraphs
             s1 == loop_paras(st, paras, <<"header", sec_idx>>, 0, sec_idx)
             s2 == IF Len(paras) > 0 THEN add_sep(s1, NL) ELSE s1
         IN IF s1.raised THEN loop_headers(Catch(s1), sections, sec_idx + 1)
            ELSE loop_headers(s2, sections, sec_idx + 1)

\* A header loop that reads the footers, as a copy of the footer loop would.
project_headers_reads_footers(st, d) == loop_footers(st, d.sections, 0)

project_headers(st, d) == loop_headers(st, d.sections, 0)

\* docx_text_mapping as a whole: the four loops in the order of the code.
docx_text_mapping(d) ==
    project_footers(project_headers(project_tables(project_body(ProjStart, d), d), d), d)

\* --------------------------------------------------- _replace_using_mapping
\* The dataclass Entity: the five position fields default to None.  A number
\* held by one of them is wrapped (Some) so that it can be told from None.
Some(v) == [val |-> v]

Entity(type, value, start, end) ==
    [type |-> type, value |-> value, start |-> start, end |-> end,
     page |-> None, x |-> None, y |-> None, width |-> None, height |-> None]

\* run.text = t on the run that get_run(path, d) returned.
\* (The variant puts a fresh run in its place, which loses the formatting.)
set_run_text_new_run(path, d, t) ==
    LET kind == path[1] IN
    IF kind = "body" THEN
        [d EXCEPT !.paragraphs[path[2] + 1].runs[path[3] + 1] = Run(t, "plain", FALSE)]
    ELSE IF kind = "table" THEN
        [d EXCEPT !.tables[path[2] + 1].rows[path[3] + 1].cells[path[4] + 1]
                    .paragraphs[path[5] + 1].runs[path[6] + 1] = Run(t, "plain", FALSE)]
    ELSE IF kind = "header" THEN
        [d EXCEPT !.sections[path[2] + 1].header.paragraphs[path[3] + 1]
                    .runs[path[4] + 1] = Run(t, "plain", FALSE)]
    ELSE
        [d EXCEPT !.sections[path[2] + 1].footer.paragraphs[path[3] + 1]
                    .runs[path[4] + 1] = Run(t, "plain", FALSE)]

set_run_text(path, d, t) ==
    LET kind == path[1] IN
    IF kind = "body" THEN
        [d EXCEPT !.paragraphs[path[2] + 1].runs[path[3] + 1].text = t]
    ELSE IF kind = "table" THEN
        [d EXCEPT !.tables[path[2] + 1].rows[path[3] + 1].cells[path[4] + 1]
                    .paragraphs[path[5] + 1].runs[path[6] + 1].text = t]
    ELSE IF kind = "header" THEN
        [d EXCEPT !.sections[path[2] + 1].header.paragraphs[path[3] + 1]
                    .runs[path[4] + 1].text = t]
    ELSE
        [d EXCEPT !.sections[path[2] + 1].footer.paragraphs[path[3] + 1]
                    .runs[path[4] + 1].text = t]

\* The overlap test of both loops, written as the negation of the code's
\* "continue" condition.  (The variant also takes the runs that only touch
\* the entity.)
overlaps_inclusive(m, ent) == ~(m.end < ent.start \/ m.start > ent.end)

overlaps(m, ent) == ~(m.end <= ent.start \/ m.start >= ent.end)

\* f"[{ent.type}]"
placeholder(ent) == <<"[", ent.type, "]">>

\* _original_text: the pieces of the current run texts under the entity,
\* joined.  "raised" is set when a locator raises.
Returned(t) == [raised |-> FALSE, text |-> t]
Raised == [raised |-> TRUE, text |-> <<>>]

RECURSIVE original_text_from(_, _, _, _, _)
original_text_from(ent, d, mapping, i, acc) ==
    IF i > Len(mapping) THEN Returned(acc)
    ELSE LET m == mapping[i] IN
         IF ~overlaps(m, ent) THEN original_text_from(ent, d, mapping, i + 1, acc)
         ELSE LET run == get_run(m.path, d) IN
              IF run = ValueError THEN Raised
              ELSE IF run = None THEN original_text_from(ent, d, mapping, i + 1, acc)
              ELSE LET rs == Max(ent.start, m.start) - m.start
                       re == Min(ent.end, m.end) - m.start
                       run_text == run.text
                   IN IF rs < Len(run_text) /\ re <= Len(run_text)
                      THEN original_text_from(ent, d, mapping, i + 1,
                                              acc \o PySlice(run_text, rs, re))
                      ELSE original_text_from(ent, d, mapping, i + 1, acc)

original_text(ent, d, mapping) == original_text_from(ent, d, mapping, 1, <<>>)

\* replacement = ent.value; if replacement == original: replacement = "[type]"
effective(ent, original) ==
    IF ent.value = original THEN placeholder(ent) ELSE ent.value

\* The inner loop "for m in mapping" of one entity.  A locator that raises
\* ends the entity: the runs already written keep their new text.
RECURSIVE splice_from(_, _, _, _, _, _)
splice_from(d, ent, replacement, mapping, i, first) ==
    IF i > Len(mapping) THEN d
    ELSE LET m == mapping[i] IN
         IF ~overlaps(m, ent) THEN splice_from(d, ent, replacement, mapping, i + 1, first)
         ELSE LET run == get_run(m.path, d) IN
              IF run = ValueError THEN d
              ELSE IF run = None THEN splice_from(d, ent, replacement, mapping, i + 1, first)
              ELSE LET rs == Max(ent.start, m.start) - m.start
                       re == Min(ent.end, m.end) - m.start
                       run_text == run.text
                   IN IF first
                      THEN splice_from(
                               set_run_text(m.path, d,
                                   PyPrefix(run_text, rs) \o replacement \o PySuffix(run_text, re)),
                               ent, replacement, mapping, i + 1, FALSE)
                      ELSE splice_from(
                               set_run_text(m.path, d,
                                   PyPrefix(run_text, rs) \o PySuffix(run_text, re)),
                               ent, replacement, mapping, i + 1, FALSE)

\* One iteration of "for ent in entities".
replace_entity(d, ent, mapping) ==
    LET original == original_text(ent, d, mapping) IN
    IF original.raised THEN d
    ELSE splice_from(d, ent, effective(ent, original.text), mapping, 1, TRUE)

\* _replace_using_mapping as a whole: "for ent in entities".
RECURSIVE replace_from(_, _, _, _)
replace_from(d, ents, mapping, i) ==
    IF i > Len(ents) THEN d
    ELSE replace_from(replace_entity(d, ents[i], mapping), ents, mapping, i + 1)

replace_using_mapping(d, ents, mapping) == replace_from(d, ents, mapping, 1)

\* ------------------------------------------------------ metadata (anonymize_docx)
\* if core_props.get("author"): doc.core_properties.author = core_props["author"] ...
\* An empty string is falsy: the field is then left as it is.
\* (The variant restores the title from the saved author.)
restore_metadata_title_from_author(d, saved) ==
    [d EXCEPT !.core_properties =
        [author |-> IF saved.author # <<>> THEN saved.author ELSE @.author,
         title |-> IF saved.author # <<>> THEN saved.author ELSE @.title,
         subject |-> IF saved.subject # <<>> THEN saved.subject ELSE @.subject]]

restore_metadata(d, saved) ==
    [d EXCEPT !.core_properties =
        [author |-> IF saved.author # <<>> THEN saved.author ELSE @.author,
         title |-> IF saved.title # <<>> THEN saved.title ELSE @.title,
         subject |-> IF saved.subject # <<>> THEN saved.subject ELSE @.subject]]

\* ------------------------------------------------------------- export_docx
\* section.header.add_paragraph(); para.add_run(watermark); run.font.bold = True
RECURSIVE add_watermark_from(_, _, _)
add_watermark_from(d, watermark, s_idx) ==
    IF s_idx >= Len(d.sections) THEN d
    ELSE add_watermark_from(
             [d EXCEPT !.sections[s_idx + 1].header.paragraphs =
                 Append(@, Para(<<Run(watermark, "bold", FALSE)>>, FALSE))],
             watermark, s_idx + 1)

\* (The variant puts the new paragraph first in the header.)
RECURSIVE add_watermark_first_from(_, _, _)
add_watermark_first_from(d, watermark, s_idx) ==
    IF s_idx >= Len(d.sections) THEN d
    ELSE add_watermark_first_from(
             [d EXCEPT !.sections[s_idx + 1].header.paragraphs =
                 <<Para(<<Run(watermark, "bold", FALSE)>>, FALSE)>> \o @],
             watermark, s_idx + 1)

add_watermark_first(d, watermark) == add_watermark_first_from(d, watermark, 0)

add_watermark(d, watermark) == add_watermark_from(d, watermark, 0)

\* report_lines = [f"{e.type}: {e.value}" for e in entities]; "\n".join(...)
RECURSIVE join_report(_, _)
join_report(ents, i) ==
    IF i > Len(ents) THEN <<>>
    ELSE (IF i > 1 THEN NL ELSE <<>>)
         \o <<ents[i].type, ":", " ">> \o ents[i].value \o join_report(ents, i + 1)

\* (The variant joins the lines with nothing between them.)
RECURSIVE concat_report(_, _)
concat_report(ents, i) ==
    IF i > Len(ents) THEN <<>>
    ELSE <<ents[i].type, ":", " ">> \o ents[i].value \o concat_report(ents, i + 1)

audit_report_concat(ents) == concat_report(ents, 1)

audit_report(ents) == join_report(ents, 1)

\* ----------------------------------------------- anonymize_pdf: bounding boxes
\* The glyph stream pdfplumber gives: pages of character records.  A page or
\* the whole source that is not readable raises when it is opened.
Glyph(t, x0, x1, top, bottom) ==
    [text |-> t, x0 |-> x0, x1 |-> x1, top |-> top, bottom |-> bottom]
PdfPage(r, cs) == [readable |-> r, chars |-> cs]
Pdf(r, ps) == [readable |-> r, pages |-> ps]

\* One iteration of "for ch in page.chars": a record without text is skipped.
scan_char(st, ch, page_num) ==
    LET c == ch.text IN
    IF Len(c) = 0 THEN st
    ELSE [st EXCEPT
            !.pdf_text_parts = Append(@, c),
            !.char_map = Append(@, [index |-> st.pos, page |-> page_num,
                                    x0 |-> ch.x0, x1 |-> ch.x1,
                                    top |-> ch.top, bottom |-> ch.bottom]),
            !.pos = @ + Len(c)]

RECURSIVE scan_chars(_, _, _, _)
scan_chars(st, chars, i, page_num) ==
    IF i > Len(chars) THEN st
    ELSE scan_chars(scan_char(st, chars[i], page_num), chars, i + 1, page_num)

\* One iteration of "for page_num, page in enumerate(pdf.pages, start=1)": the
\* characters, then "\n" for the page.  A page that cannot be read raises at
\* page.chars, before anything is appended (except: continue).
\* (The variant counts the line end of a page it could not read.)
scan_page_counts_failed(st, page, page_num) ==
    IF ~page.readable THEN [st EXCEPT !.pos = @ + 1]
    ELSE LET s1 == scan_chars(st, page.chars, 1, page_num)
         IN [s1 EXCEPT !.pdf_text_parts = Append(@, NL), !.pos = @ + 1]

scan_page(st, page, page_num) ==
    IF ~page.readable THEN st
    ELSE LET s1 == scan_chars(st, page.chars, 1, page_num)
         IN [s1 EXCEPT !.pdf_text_parts = Append(@, NL), !.pos = @ + 1]

\* "".join(pdf_text_parts)
RECURSIVE join(_)
join(strs) == IF Len(strs) = 0 THEN <<>> ELSE Head(strs) \o join(Tail(strs))

MinOf(S) == CHOOSE a \in S : \A b \in S : a <= b
MaxOf(S) == CHOOSE a \in S : \A b \in S : a >= b

\* str.find(sub, start): the lowest index >= start at which sub occurs, or -1.
\* (The variant searches from the beginning of the text.)
find_from_beginning(s, sub, start) ==
    LET hits == { i \in 0..(Len(s) - Len(sub)) : SubSeq(s, i + 1, i + Len(sub)) = sub }
    IN IF hits = {} THEN -1 ELSE MinOf(hits)

find(s, sub, start) ==
    LET hits == { i \in start..(Len(s) - Len(sub)) : SubSeq(s, i + 1, i + Len(sub)) = sub }
    IN IF hits = {} THEN -1 ELSE MinOf(hits)

\* sorted(entities, key=lambda e: e.start): a stable sort; the result lists the
\* same objects, here by their index in entities.
RECURSIVE sorted_from(_, _)
sorted_from(ents, k) ==
    IF k = 0 THEN <<>>
    ELSE LET order == sorted_from(ents, k - 1)
             n == Cardinality({ i \in 1..Len(order) : ents[order[i]].start <= ents[k].start })
         IN SubSeq(order, 1, n) \o <<k>> \o SubSeq(order, n + 1, Len(order))

sorted_by_start(ents) == sorted_from(ents, Len(ents))

\* chars = [cm for cm in char_map if idx <= cm["index"] < idx + len(ent.value)]
\* (The variant also takes the record that starts where the span ends.)
chars_in_inclusive(char_map_val, idx, n) ==
    SelectSeq(char_map_val, LAMBDA cm : idx <= cm.index /\ cm.index <= idx + n)

chars_in(char_map_val, idx, n) ==
    SelectSeq(char_map_val, LAMBDA cm : idx <= cm.index /\ cm.index < idx + n)

\* The five assignments ent.page = ...; ent.x = ...; ... ent.height = ...
\* (The first variant leaves the size unset, the second also moves the entity
\* to where it was found.)
annotate_without_size(ent, chars, idx) ==
    LET x0 == MinOf({ chars[i].x0 : i \in 1..Len(chars) })
        top == MinOf({ chars[i].top : i \in 1..Len(chars) })
    IN [ent EXCEPT !.page = Some(chars[1].page), !.x = Some(x0), !.y = Some(top)]

annotate_moves_entity(ent, chars, idx) ==
    LET x0 == MinOf({ chars[i].x0 : i \in 1..Len(chars) })
        x1 == MaxOf({ chars[i].x1 : i \in 1..Len(chars) })
        top == MinOf({ chars[i].top : i \in 1..Len(chars) })
        bottom == MaxOf({ chars[i].bottom : i \in 1..Len(chars) })
    IN [ent EXCEPT !.start = idx, !.end = idx + Len(ent.value),
                   !.page = Some(chars[1].page),
                   !.x = Some(x0), !.y = Some(top),
                   !.width = Some(x1 - x0), !.height = Some(bottom - top)]

annotate(ent, chars, idx) ==
    LET x0 == MinOf({ chars[i].x0 : i \in 1..Len(chars) })
        x1 == MaxOf({ chars[i].x1 : i \in 1..Len(chars) })
        top == MinOf({ chars[i].top : i \in 1..Len(chars) })
        bottom == MaxOf({ chars[i].bottom : i \in 1..Len(chars) })
    IN [ent EXCEPT !.page = Some(chars[1].page),
                   !.x = Some(x0), !.y = Some(top),
                   !.width = Some(x1 - x0), !.height = Some(bottom - top)]

\* One iteration of "for ent in sorted(entities, ...)": the entity as the
\* iteration leaves it, the search cursor after it and the value idx took.
resolve_entity(ent, pdf_text_val, char_map_val, search_pos_val) ==
    LET idx == find(pdf_text_val, ent.value, search_pos_val) IN
    IF idx = -1
    THEN [ent |-> ent, search_pos |-> search_pos_val, idx |-> idx]
    ELSE LET chars == chars_in(char_map_val, idx, Len(ent.value)) IN
         [ent |-> IF Len(chars) = 0 THEN ent ELSE annotate(ent, chars, idx),
          search_pos |-> idx + Len(ent.value),
          idx |-> idx]

\* ------------------------------------------------------------ input documents
Plain(t) == Run(t, "plain", FALSE)

\* Documents given to anonymize_docx / export_docx.
RwBodies ==
    { <<Para(<<Plain(<<"a", "b">>)>>, FALSE)>>,
      <<Para(<<Plain(<<"a">>), Run(<<"b">>, "bold", FALSE)>>, FALSE)>>,
      <<Para(<<Plain(<<"a">>)>>, FALSE), Para(<<Run(<<"b">>, "bold", FALSE)>>, FALSE)>>,
      <<Para(<<Plain(<<"a">>), Plain(<<>>), Run(<<"b">>, "italic", FALSE)>>, FALSE)>> }

EmptyPart == <<Para(<<>>, FALSE)>>

NoPart == <<>>

\* A body alone, and a document without body whose table cell, header and
\* footer each hold one formatted run (the flat text runs from the table into
\* the header without a separator).
RwDocs ==
    { Doc(b, <<>>, <<Section(NoPart, NoPart)>>, Core(<<>>, <<>>, <<>>)) : b \in RwBodies }
    \cup
    { Doc(<<>>,
          <<Table(<<Row(<<Cell(<<Para(<<Run(<<"b">>, "italic", FALSE)>>, FALSE)>>)>>)>>)>>,
          <<Section(<<Para(<<Run(<<"a">>, "bold", FALSE)>>, FALSE)>>,
                    <<Para(<<Run(<<"b">>, "underline", FALSE)>>, FALSE)>>)>>,
          Core(<<"A">>, <<"T", "i", "t", "r", "e">>, <<>>)) }

\* Documents given to docx_text_mapping alone.
ParaChoices ==
    { Para(<<>>, FALSE),
      Para(<<Plain(<<"a">>)>>, FALSE),
      Para(<<Plain(<<>>), Plain(<<"a", "b">>)>>, FALSE),
      Para(<<Run(<<"b">>, "plain", TRUE), Plain(<<"a">>)>>, TRUE) }

SmallTable == Table(<<Row(<<Cell(<<Para(<<Plain(<<"c">>)>>, FALSE)>>)>>)>>)

WideTable ==
    Table(<<Row(<<Cell(<<Para(<<Plain(<<"d">>)>>, FALSE), Para(<<Plain(<<"e">>)>>, FALSE)>>),
                  Cell(<<Para(<<>>, FALSE)>>)>>),
            Row(<<Cell(<<Para(<<Plain(<<"c">>), Plain(<<"d", "e">>)>>, FALSE)>>)>>)>>)

TableChoices == { <<>>, <<SmallTable>>, <<WideTable>>, <<SmallTable, WideTable>> }

SectionChoices ==
    { Section(EmptyPart, EmptyPart),
      Section(<<Para(<<Plain(<<"h">>)>>, FALSE)>>,
              <<Para(<<Plain(<<"f">>)>>, FALSE), Para(<<Plain(<<"g">>)>>, FALSE)>>),
      Section(<<>>, <<Para(<<Plain(<<>>)>>, FALSE)>>) }

ProjDocs ==
    { Doc(b, t, s, Core(<<>>, <<>>, <<>>)) :
        b \in SeqsUpTo(ParaChoices, MaxParas),
        t \in TableChoices,
        s \in NonEmptySeqsUpTo(SectionChoices, MaxSections) }

\* Documents given to docx_text_mapping with malformed units: two body
\* paragraphs, a table of two rows followed by a second table, two sections
\* whose headers and footers hold up to two paragraphs.
FaultDocs ==
    { Doc(<<Para(<<Plain(<<"a">>), Plain(<<"b">>)>>, s), Para(<<Plain(<<"c">>)>>, FALSE)>>,
          <<WideTable, SmallTable>>,
          <<Section(<<Para(<<Plain(<<"h">>)>>, FALSE), Para(<<Plain(<<"i">>)>>, FALSE)>>,
                    <<Para(<<Plain(<<"f">>)>>, FALSE)>>),
            Section(<<Para(<<Plain(<<"j">>)>>, FALSE)>>,
                    <<Para(<<Plain(<<"g">>)>>, FALSE), Para(<<Plain(<<"k">>)>>, FALSE)>>)>>,
          Core(<<>>, <<>>, <<>>)) : s \in BOOLEAN }

\* The units of d that can be malformed: runs, paragraphs, cells, rows, tables,
\* headers and footers.
Units(d) ==
    { <<"body", p - 1>> : p \in 1..Len(d.paragraphs) }
    \cup
    UNION { { <<"body", p - 1, r - 1>> : r \in 1..Len(d.paragraphs[p].runs) } :
              p \in 1..Len(d.paragraphs) }
    \cup
    { <<"table", t - 1>> : t \in 1..Len(d.tables) }
    \cup
    UNION { { <<"table", t - 1, w - 1>> : w \in 1..Len(d.tables[t].rows) } :
              t \in 1..Len(d.tables) }
    \cup
    UNION { UNION { { <<"table", t - 1, w - 1, c - 1>> :
                        c \in 1..Len(d.tables[t].rows[w].cells) } :
              w \in 1..Len(d.tables[t].rows) } : t \in 1..Len(d.tables) }
    \cup
    UNION { UNION { UNION { { <<"table", t - 1, w - 1, c - 1, p - 1>> :
                        p \in 1..Len(d.tables[t].rows[w].cells[c].paragraphs) } :
              c \in 1..Len(d.tables[t].rows[w].cells) } :
              w \in 1..Len(d.tables[t].rows) } : t \in 1..Len(d.tables) }
    \cup
    UNION { { <<k, s - 1>>, <<k, s - 1, 0>>, <<k, s - 1, 0, 0>>, <<k, s - 1, 1>> } :
              k \in {"header", "footer"}, s \in 1..Len(d.sections) }

\* The sets of at most n units of U.
RECURSIVE SetsUpTo(_, _)
SetsUpTo(U, n) ==
    IF n = 0 THEN { {} }
    ELSE LET S == SetsUpTo(U, n - 1) IN S \cup { F \cup {u} : F \in S, u \in U }

FaultSets(d) == SetsUpTo(Units(d), MaxFaults)

\* The glyph streams given to anonymize_pdf.  Coordinates are such that the
\* first record of a span has neither the least x0 nor the greatest bottom.
GlyphA == Glyph(<<"a">>, 3, 4, 1, 2)
GlyphB == Glyph(<<"b">>, 1, 2, 2, 4)
GlyphNoText == Glyph(<<>>, 0, 9, 0, 9)
GlyphLigature == Glyph(<<"a", "b">>, 5, 7, 0, 1)

PageChoices ==
    { PdfPage(FALSE, <<GlyphA, GlyphB>>),
      PdfPage(TRUE, <<GlyphA, GlyphB>>),
      PdfPage(TRUE, <<GlyphB, GlyphNoText, GlyphA>>),
      PdfPage(TRUE, <<GlyphLigature, GlyphB>>) }

\* A source that pdfplumber cannot open.
NoPdf == Pdf(FALSE, <<>>)

\* The converted documents of anonymize_pdf: those of RwDocs with a one-run
\* body or none (flat texts "ab\n" and "ba\nb\n").
PdfDocs ==
    { d \in RwDocs :
        \/ Len(d.paragraphs) = 0
        \/ Len(d.paragraphs) = 1 /\ Len(d.paragraphs[1].runs) = 1 }

Pdfs == { Pdf(TRUE, ps) : ps \in SeqsUpTo(PageChoices, MaxPages) } \cup { NoPdf }

\* ------------------------------------------------------------------- entities
\* detect: the matches of each pattern, pattern after pattern in the order of
\* PATTERNS; the matches of one pattern are those of finditer, left to right
\* and not overlapping; the value is the matched text.  Which spans match is
\* left open.
Types == <<"E", "L">>
TypeRank(t) == CHOOSE k \in 1..Len(Types) : Types[k] = t

Spans(text) ==
    { sp \in (0..Len(text)) \X (0..Len(text)) : sp[1] < sp[2] /\ sp[2] - sp[1] <= MaxSpan }

Detected(text) ==
    { Entity(Types[k], SubSeq(text, sp[1] + 1, sp[2]), sp[1], sp[2]) :
        k \in 1..Len(Types), sp \in Spans(text) }

DetectOrdered(ents) ==
    \A i \in 1..(Len(ents) - 1) :
        \/ TypeRank(ents[i].type) < TypeRank(ents[i + 1].type)
        \/ /\ ents[i].type = ents[i + 1].type
           /\ ents[i].end <= ents[i + 1].start


\* The entities a caller hands to export_docx: any type, any span, a value
\* that is the text under the span, that text without its separators, or
\* some other text.
Unseparated(t) == SelectSeq(t, LAMBDA c : c \notin Separators)

Supplied(text) ==
    { Entity(Types[k], v, sp[1], sp[2]) :
        k \in 1..Len(Types),
        sp \in Spans(text),
        v \in { <<"X">> } }
    \cup
    { Entity(Types[k], SubSeq(text, sp[1] + 1, sp[2]), sp[1], sp[2]) :
        k \in 1..Len(Types), sp \in Spans(text) }
    \cup
    { Entity(Types[k], Unseparated(SubSeq(text, sp[1] + 1, sp[2])), sp[1], sp[2]) :
        k \in 1..Len(Types), sp \in Spans(text) }


\* The projection table a caller hands to export_docx after the document has
\* drifted from it: the table of the document, or that table with the locator
\* of one entry out of range, of an unknown kind, empty, cut short or too long.
DriftPaths(path) ==
    { [path EXCEPT ![Len(path)] = @ + 5],
      [path EXCEPT ![2] = @ + 5],
      [path EXCEPT ![1] = "footnote"],
      <<>>,
      SubSeq(path, 1, Len(path) - 1),
      Append(path, 0) }

Drifted(m) ==
    { m } \cup UNION { { [m EXCEPT ![k].path = q] : q \in DriftPaths(m[k].path) } :
                        k \in 1..Len(m) }

\* ---------------------------------------------------------------------- state
VARIABLES
    data,        \* the document as opened from the input bytes
    doc,         \* the live document
    op,          \* the operation running
    pc,          \* its position
    parts,       \* docx_text_mapping: the text emitted so far
    mapping,     \* the list of RunInfo
    pos,         \* the running offset
    page,        \* the page counter
    section,     \* the section counter
    core_props,  \* anonymize_docx: the saved metadata
    entities,    \* the entities being applied
    ei,          \* how many of them the loop has processed
    watermark,   \* export_docx: the watermark added, <<>> when none
    report,      \* export_docx: the audit report, None when none
    audit,       \* export_docx: the audit flag of the call
    pdf,             \* anonymize_pdf: the glyph stream of the original PDF
    char_map,        \* the glyph index
    pdf_text_parts,  \* the pieces of the page text
    pdf_text,        \* the page text, once joined
    pdf_pos,         \* the running offset "pos" of the page scan
    page_num,        \* the number of pages the scan has taken
    search_pos,      \* the search cursor
    detected,        \* the entities as anonymize_docx returned them
    trace,           \* per entity taken: its index, the cursor before, and idx
    safe_mapping,    \* _process_file: the list of to_dict() results built so far
    mapping_data,    \* the "mapping" of the job's stored result, None before
    rebuilt,         \* export_job: the list of RunInfo reconstructed so far
    jobs_store,      \* storage.jobs_store._data
    entities_store,  \* storage.entities_store._data
    groups_store,    \* storage.groups_store._data
    task,            \* per job: the position of its _process_file task
    expired,         \* per job: whether created_at is more than 30 minutes ago
    created          \* per job: what create_entity / create_group were called with

pdfstate ==
    <<pdf, char_map, pdf_text_parts, pdf_text, pdf_pos, page_num, search_pos,
      detected, trace>>

appstate ==
    <<safe_mapping, mapping_data, rebuilt, jobs_store, entities_store, groups_store,
      task, expired, created>>

vars == <<data, faults, doc, op, pc, parts, mapping, pos, page, section, core_props,
          entities, ei, watermark, report, audit, pdfstate, appstate>>

projection == <<parts, mapping, pos, page, section>>

St ==
    [parts |-> parts, mapping |-> mapping, pos |-> pos, page |-> page,
     section |-> section, raised |-> FALSE]

SetSt(st) ==
    /\ parts' = st.parts
    /\ mapping' = st.mapping
    /\ pos' = st.pos
    /\ page' = st.page
    /\ section' = st.section

NoReport == <<"None">>

PdfIdle ==
    /\ pdf = NoPdf
    /\ char_map = <<>>
    /\ pdf_text_parts = <<>>
    /\ pdf_text = <<>>
    /\ pdf_pos = 0
    /\ page_num = 0
    /\ search_pos = 0
    /\ detected = <<>>
    /\ trace = <<>>

AppIdle ==
    /\ safe_mapping = <<>>
    /\ mapping_data = None
    /\ rebuilt = <<>>
    /\ jobs_store = <<>>
    /\ entities_store = <<>>
    /\ groups_store = <<>>
    /\ task = <<>>
    /\ expired = <<>>
    /\ created = <<>>

InitCommon ==
    /\ PdfIdle
    /\ AppIdle
    /\ doc = data
    /\ parts = <<>>
    /\ mapping = <<>>
    /\ pos = 0
    /\ page = 0
    /\ section = 0
    /\ core_props = Core(<<>>, <<>>, <<>>)
    /\ entities = <<>>
    /\ ei = 0
    /\ watermark = <<>>
    /\ report = NoReport
    /\ audit = FALSE

\* anonymize_docx(data), possibly followed by export_docx(data, mapping, ...)
Init ==
    /\ data \in RwDocs
    /\ faults = {}
    /\ op = "anonymize_docx"
    /\ pc = "open"
    /\ InitCommon

\* docx_text_mapping(doc)
ProjInit ==
    /\ data \in ProjDocs
    /\ faults = {}
    /\ op = "docx_text_mapping"
    /\ pc = "body"
    /\ InitCommon

\* docx_text_mapping(doc) on a document some of whose units are malformed.
FaultInit ==
    /\ data \in FaultDocs
    /\ faults \in FaultSets(data)
    /\ op = "docx_text_mapping"
    /\ pc = "body"
    /\ InitCommon

\* export_docx(data, mapping, entities, ...) called with a table that has
\* drifted: the state after the document is opened and the guard
\* "if entities and mapping" is evaluated.
DriftInit ==
    /\ data \in RwDocs
    /\ faults = {}
    /\ op = "export_docx"
    /\ doc = data
    /\ parts = docx_text_mapping(data).parts
    /\ pos = docx_text_mapping(data).pos
    /\ page = docx_text_mapping(data).page
    /\ section = docx_text_mapping(data).section
    /\ mapping \in Drifted(docx_text_mapping(data).mapping)
    /\ \E n \in 0..MaxEnts :
        entities \in [1..n -> { e \in Supplied(parts) : e.type = Types[1] }]
    /\ pc = IF Len(entities) # 0 /\ Len(mapping) # 0 THEN "replace" ELSE "finish"
    /\ core_props = Core(<<>>, <<>>, <<>>)
    /\ ei = 0
    /\ watermark = <<>>
    /\ report = NoReport
    /\ audit = FALSE
    /\ PdfIdle
    /\ AppIdle

\* anonymize_pdf(data) after "anonymized, entities, mapping, text =
\* self.anonymize_docx(original_docx)" has returned: data is the converted
\* document, doc the anonymized one, pdf the glyph stream of the PDF.
PdfInit ==
    /\ data \in PdfDocs
    /\ faults = {}
    /\ op = "anonymize_pdf"
    /\ pc = "bbox"
    /\ parts = docx_text_mapping(data).parts
    /\ pos = docx_text_mapping(data).pos
    /\ page = docx_text_mapping(data).page
    /\ section = docx_text_mapping(data).section
    /\ mapping = docx_text_mapping(data).mapping
    /\ \E n \in 0..MaxEnts : detected \in [1..n -> Detected(parts)]
    /\ DetectOrdered(detected)
    /\ entities = detected
    /\ doc = restore_metadata(replace_using_mapping(data, detected, mapping),
                              data.core_properties)
    /\ core_props = data.core_properties
    /\ ei = 0
    /\ watermark = <<>>
    /\ report = NoReport
    /\ audit = FALSE
    /\ pdf \in Pdfs
    /\ char_map = <<>>
    /\ pdf_text_parts = <<>>
    /\ pdf_text = <<>>
    /\ pdf_pos = 0
    /\ page_num = 0
    /\ search_pos = 0
    /\ trace = <<>>
    /\ AppIdle

\* anonymize_docx: open the document and save the metadata.
Open ==
    /\ pc = "open"
    /\ core_props' = doc.core_properties
    /\ pc' = "body"
    /\ UNCHANGED <<data, faults, pdfstate, appstate, audit, doc, op, projection, entities, ei, watermark, report>>

\* docx_text_mapping: the four loops.
ProjectBody ==
    /\ pc = "body"
    /\ SetSt(project_body(St, doc))
    /\ pc' = "tables"
    /\ UNCHANGED <<data, faults, pdfstate, appstate, audit, doc, op, core_props, entities, ei, watermark, report>>

ProjectTables ==
    /\ pc = "tables"
    /\ SetSt(project_tables(St, doc))
    /\ pc' = "headers"
    /\ UNCHANGED <<data, faults, pdfstate, appstate, audit, doc, op, core_props, entities, ei, watermark, report>>

ProjectHeaders ==
    /\ pc = "headers"
    /\ SetSt(project_headers(St, doc))
    /\ pc' = "footers"
    /\ UNCHANGED <<data, faults, pdfstate, appstate, audit, doc, op, core_props, entities, ei, watermark, report>>

ProjectFooters ==
    /\ pc = "footers"
    /\ SetSt(project_footers(St, doc))
    /\ pc' = "mapped"
    /\ UNCHANGED <<data, faults, pdfstate, appstate, audit, doc, op, core_props, entities, ei, watermark, report>>

\* anonymize_docx: entities = self.detect(text)
Detect ==
    /\ pc = "mapped"
    /\ op = "anonymize_docx"
    /\ \E n \in 0..MaxEnts : \E ents \in [1..n -> Detected(parts)] :
        /\ DetectOrdered(ents)
        /\ entities' = ents
        /\ pc' = IF Len(ents) = 0 THEN "finish" ELSE "replace"
    /\ ei' = 0
    /\ UNCHANGED <<data, faults, pdfstate, appstate, audit, doc, op, projection, core_props, watermark, report>>

\* export_docx(data, mapping, entities, ...): the bytes are those projected
\* before, opened afresh; the caller passes the projection table or none.
ExportOpen ==
    /\ pc = "mapped"
    /\ op = "anonymize_docx"
    /\ op' = "export_docx"
    /\ doc' = data
    /\ \E n \in 0..MaxEnts : \E ents \in [1..n -> Supplied(parts)], given \in BOOLEAN :
        /\ entities' = ents
        /\ mapping' = IF given THEN mapping ELSE <<>>
        /\ pc' = IF Len(ents) # 0 /\ given /\ Len(mapping) # 0 THEN "replace" ELSE "finish"
    /\ ei' = 0
    /\ UNCHANGED <<data, faults, pdfstate, appstate, audit, parts, pos, page, section, core_props, watermark, report>>

\* _replace_using_mapping: one iteration of "for ent in entities".
ReplaceEntity ==
    /\ pc = "replace"
    /\ ei < Len(entities)
    /\ doc' = replace_entity(doc, entities[ei + 1], mapping)
    /\ ei' = ei + 1
    /\ pc' = IF ei + 1 = Len(entities) THEN "finish" ELSE "replace"
    /\ UNCHANGED <<data, faults, pdfstate, appstate, audit, op, projection, core_props, entities, watermark, report>>

\* anonymize_docx: restore the metadata and save.
AnonymizeFinish ==
    /\ pc = "finish"
    /\ op = "anonymize_docx"
    /\ doc' = restore_metadata(doc, core_props)
    /\ pc' = "done"
    /\ UNCHANGED <<data, faults, pdfstate, appstate, audit, op, projection, core_props, entities, ei, watermark, report>>

\* export_docx: watermark, audit report, save.
ExportFinish ==
    /\ pc = "finish"
    /\ op = "export_docx"
    /\ \E w \in {<<>>, <<"W">>}, a \in BOOLEAN :
        /\ watermark' = w
        /\ audit' = a
        /\ doc' = IF w # <<>> THEN add_watermark(doc, w) ELSE doc
        /\ report' = IF a /\ Len(entities) # 0 THEN audit_report(entities) ELSE NoReport
    /\ pc' = "done"
    /\ UNCHANGED <<data, faults, pdfstate, appstate, op, projection, core_props, entities, ei>>

docxstate ==
    <<data, faults, doc, op, parts, mapping, pos, page, section, core_props,
      watermark, report, audit>>

\* with pdfplumber.open(BytesIO(data)) as pdf: a source that cannot be opened
\* raises into the handler of line 482, which logs and goes on to the return.
\* (The variant lets the exception leave anonymize_pdf.)
PdfOpenUnguarded ==
    /\ pc = "bbox"
    /\ op = "anonymize_pdf"
    /\ pc' = IF pdf.readable THEN "scan" ELSE "raised"
    /\ UNCHANGED <<docxstate, appstate, entities, ei, pdfstate>>

PdfOpen ==
    /\ pc = "bbox"
    /\ op = "anonymize_pdf"
    /\ pc' = IF pdf.readable THEN "scan" ELSE "done"
    /\ UNCHANGED <<docxstate, appstate, entities, ei, pdfstate>>

\* One iteration of the page loop.
ScanPage ==
    /\ pc = "scan"
    /\ page_num < Len(pdf.pages)
    /\ LET st == scan_page([char_map |-> char_map, pdf_text_parts |-> pdf_text_parts,
                            pos |-> pdf_pos],
                           pdf.pages[page_num + 1], page_num + 1)
       IN /\ char_map' = st.char_map
          /\ pdf_text_parts' = st.pdf_text_parts
          /\ pdf_pos' = st.pos
    /\ page_num' = page_num + 1
    /\ UNCHANGED <<docxstate, appstate, pc, entities, ei, pdf, pdf_text, search_pos, detected, trace>>

\* pdf_text = "".join(pdf_text_parts); search_pos = 0
JoinText ==
    /\ pc = "scan"
    /\ page_num = Len(pdf.pages)
    /\ pdf_text' = join(pdf_text_parts)
    /\ search_pos' = 0
    /\ pc' = "resolve"
    /\ UNCHANGED <<docxstate, appstate, entities, ei, pdf, char_map, pdf_text_parts, pdf_pos,
                   page_num, detected, trace>>

\* One iteration of "for ent in sorted(entities, key=lambda e: e.start)".
ResolveEntity ==
    /\ pc = "resolve"
    /\ ei < Len(entities)
    /\ LET k == sorted_by_start(entities)[ei + 1]
           r == resolve_entity(entities[k], pdf_text, char_map, search_pos)
       IN /\ entities' = [entities EXCEPT ![k] = r.ent]
          /\ search_pos' = r.search_pos
          /\ trace' = Append(trace, [ent |-> k, search_pos |-> search_pos, idx |-> r.idx])
    /\ ei' = ei + 1
    /\ UNCHANGED <<docxstate, appstate, pc, pdf, char_map, pdf_text_parts, pdf_text, pdf_pos,
                   page_num, detected>>

\* return anonymized, entities, mapping, text, original_docx
PdfReturn ==
    /\ pc = "resolve"
    /\ ei = Len(entities)
    /\ pc' = "done"
    /\ UNCHANGED <<docxstate, appstate, entities, ei, pdfstate>>

Next ==
    \/ Open
    \/ ProjectBody
    \/ ProjectTables
    \/ ProjectHeaders
    \/ ProjectFooters
    \/ Detect
    \/ ExportOpen
    \/ ReplaceEntity
    \/ AnonymizeFinish
    \/ ExportFinish

Spec == Init /\ [][Next]_vars

ProjNext ==
    \/ ProjectBody
    \/ ProjectTables
    \/ ProjectHeaders
    \/ ProjectFooters

ProjSpec == ProjInit /\ [][ProjNext]_vars

FaultSpec == FaultInit /\ [][ProjNext]_vars

\* export_docx(data, mapping, entities, ...) with a drifted projection table.
DriftNext ==
    \/ ReplaceEntity
    \/ ExportFinish

DriftSpec == DriftInit /\ [][DriftNext]_vars

\* anonymize_pdf from the return of anonymize_docx on.
PdfNext ==
    \/ PdfOpen
    \/ ScanPage
    \/ JoinText
    \/ ResolveEntity
    \/ PdfReturn

PdfSpec == PdfInit /\ [][PdfNext]_vars

\* ------------------------------------------------------- vocabulary of the properties
\* The locators of every run of d, listed from the tree itself.
AllLocs(d) ==
    UNION { { <<"body", p - 1, r - 1>> : r \in 1..Len(d.paragraphs[p].runs) } :
              p \in 1..Len(d.paragraphs) }
    \cup
    UNION { UNION { UNION { UNION {
        { <<"table", t - 1, w - 1, c - 1, p - 1, r - 1>> :
            r \in 1..Len(d.tables[t].rows[w].cells[c].paragraphs[p].runs) } :
          p \in 1..Len(d.tables[t].rows[w].cells[c].paragraphs) } :
          c \in 1..Len(d.tables[t].rows[w].cells) } :
          w \in 1..Len(d.tables[t].rows) } :
          t \in 1..Len(d.tables) }
    \cup
    UNION { UNION {
        { <<"header", s - 1, p - 1, r - 1>> :
            r \in 1..Len(d.sections[s].header.paragraphs[p].runs) } :
          p \in 1..Len(d.sections[s].header.paragraphs) } :
          s \in 1..Len(d.sections) }
    \cup
    UNION { UNION {
        { <<"footer", s - 1, p - 1, r - 1>> :
            r \in 1..Len(d.sections[s].footer.paragraphs[p].runs) } :
          p \in 1..Len(d.sections[s].footer.paragraphs) } :
          s \in 1..Len(d.sections) }

Resolves(path, d) == get_run(path, d) # None /\ get_run(path, d) # ValueError

Covered(i) == { k \in 1..Len(mapping) : mapping[k].start <= i /\ i < mapping[k].end }

\* Lexicographic order on integer tuples of one length.
LexLess(a, b) ==
    \E i \in 1..Len(a) : a[i] < b[i] /\ \A j \in 1..(i - 1) : a[j] = b[j]

\* Body, tables, then every header, then every footer.
PhaseKey(path) ==
    IF path[1] = "body" THEN <<0, path[2], path[3], 0, 0, 0>>
    ELSE IF path[1] = "table" THEN <<1, path[2], path[3], path[4], path[5], path[6]>>
    ELSE IF path[1] = "header" THEN <<2, path[2], path[3], path[4], 0, 0>>
    ELSE <<3, path[2], path[3], path[4], 0, 0>>

\* Body, tables, then section by section: its header, then its footer.
SectionKey(path) ==
    IF path[1] = "body" THEN <<0, path[2], path[3], 0, 0, 0>>
    ELSE IF path[1] = "table" THEN <<1, path[2], path[3], path[4], path[5], path[6]>>
    ELSE IF path[1] = "header" THEN <<2, path[2], 0, path[3], path[4], 0>>
    ELSE <<2, path[2], 1, path[3], path[4], 0>>

SameParagraph(p, q) ==
    Len(p) = Len(q) /\ SubSeq(p, 1, Len(p) - 1) = SubSeq(q, 1, Len(q) - 1)

Kinds(m) == { m[k].path[1] : k \in 1..Len(m) }

\* -------------------------------------------------------------- the properties

\* C5: every entry of the projection table resolves, against the document it
\* was projected from, to a run whose text is flat_text[start:end] and whose
\* length is end - start.
C5_LocatorRoundTrip ==
    \A k \in 1..Len(mapping) :
        LET m == mapping[k] IN
        /\ Resolves(m.path, data)
        /\ get_run(m.path, data).text = SubSeq(parts, m.start + 1, m.end)
        /\ m.end - m.start = Len(get_run(m.path, data).text)

C5_Witness ==
    /\ op = "docx_text_mapping"
    /\ pc = "mapped"
    /\ Kinds(mapping) = {"body", "table", "header", "footer"}
    /\ \E k \in 1..Len(mapping) : mapping[k].path[Len(mapping[k].path)] > 0
                                  /\ mapping[k].end > mapping[k].start

\* C6: the running offset is the length of the text emitted so far; every
\* entry holds the text of its run; an index of the flat text is covered by at
\* most one entry, and it holds a separator exactly when no entry covers it.
C6_OffsetSoundness ==
    /\ pos = Len(parts)
    /\ \A k \in 1..Len(mapping) :
        /\ 0 <= mapping[k].start /\ mapping[k].start <= mapping[k].end
        /\ mapping[k].end <= Len(parts)
        /\ SubSeq(parts, mapping[k].start + 1, mapping[k].end)
             = get_run(mapping[k].path, data).text
    /\ \A i \in 0..(Len(parts) - 1) :
        /\ Cardinality(Covered(i)) <= 1
        /\ (Covered(i) = {}) <=> (parts[i + 1] \in Separators)

C6_Witness ==
    /\ op = "docx_text_mapping"
    /\ pc = "mapped"
    /\ Len(mapping) >= 4
    /\ \E i \in 1..Len(parts) : parts[i] = "\t"
    /\ \E i \in 1..Len(parts) : parts[i] = "\n"
    /\ pos = Len(parts)

\* C9 as claimed: body runs, then table runs, then section by section the
\* header runs followed by the footer runs of that section.
C9_SectionByFooterOrder ==
    pc = "mapped" =>
        \A i \in 1..Len(mapping), j \in 1..Len(mapping) :
            i < j => LexLess(SectionKey(mapping[i].path), SectionKey(mapping[j].path))

\* C9 amended: the table lists every run once: all body runs, then all table
\* runs (table, row, cell, paragraph, run), then the header runs of every
\* section in section order, then the footer runs of every section in section
\* order; the flat text follows the same order.
C9_TraversalOrder ==
    pc = "mapped" =>
        /\ { mapping[k].path : k \in 1..Len(mapping) } = AllLocs(data)
        /\ \A i \in 1..Len(mapping), j \in 1..Len(mapping) :
            i < j => /\ LexLess(PhaseKey(mapping[i].path), PhaseKey(mapping[j].path))
                     /\ mapping[i].end <= mapping[j].start

C9_Witness ==
    /\ op = "docx_text_mapping"
    /\ pc = "mapped"
    /\ Len(data.sections) >= 2
    /\ \E i \in 1..Len(mapping), j \in 1..Len(mapping) :
        /\ i < j
        /\ mapping[i].path[1] = "header" /\ mapping[i].path[2] = 1
        /\ mapping[j].path[1] = "footer" /\ mapping[j].path[2] = 0

\* C10 as claimed: consecutive entries have strictly increasing starts.
C10_StrictlyIncreasingStart ==
    \A k \in 1..(Len(mapping) - 1) : mapping[k].start < mapping[k + 1].start

\* C10 amended: consecutive entries a, b have a.start <= a.end <= b.start, the
\* starts being equal only when a is a zero-length entry with no separator
\* before b; the characters between a.end and b.start are all separators, and
\* there is none between two runs of one paragraph.
C10_OrderedContiguous ==
    \A k \in 1..(Len(mapping) - 1) :
        LET a == mapping[k]
            b == mapping[k + 1]
        IN /\ a.start <= a.end
           /\ a.end <= b.start
           /\ (a.start = b.start) <=> (a.start = a.end /\ b.start = a.end)
           /\ \A i \in a.end..(b.start - 1) : parts[i + 1] \in Separators
           /\ SameParagraph(a.path, b.path) => b.start = a.end

C10_Witness ==
    /\ op = "docx_text_mapping"
    /\ pc = "mapped"
    /\ \E k \in 1..(Len(mapping) - 1) :
        /\ mapping[k].start = mapping[k + 1].start
        /\ SameParagraph(mapping[k].path, mapping[k + 1].path)
    /\ \E k \in 1..(Len(mapping) - 1) : mapping[k + 1].start - mapping[k].end >= 2

\* ------------------------------------------- vocabulary of the rewriter properties
\* The projection table of the input document (the snapshot).
Snap == docx_text_mapping(data).mapping
FlatText == docx_text_mapping(data).parts

SnapText(k) == get_run(Snap[k].path, data).text
FinalText(k) == get_run(Snap[k].path, doc).text

\* The overlap test of the specification.
Over(k, e) == Snap[k].end > e.start /\ Snap[k].start < e.end
OverUnits(e) == { k \in 1..Len(Snap) : Over(k, e) }
FirstUnit(e) == CHOOSE k \in OverUnits(e) : \A j \in OverUnits(e) : k <= j
LocalStart(k, e) == Max(e.start, Snap[k].start) - Snap[k].start
LocalEnd(k, e) == Min(e.end, Snap[k].end) - Snap[k].start

NonOverlapping(ents) ==
    \A i \in 1..Len(ents), j \in 1..Len(ents) :
        i < j => (ents[i].end <= ents[j].start \/ ents[j].end <= ents[i].start)

Proper(ents) == \A i \in 1..Len(ents) : ents[i].start < ents[i].end

\* The original text of an entity: the pieces of the snapshot run texts under
\* it, in table order.
RECURSIVE ReconstructedFrom(_, _)
ReconstructedFrom(e, k) ==
    IF k > Len(Snap) THEN <<>>
    ELSE (IF Over(k, e) THEN SubSeq(SnapText(k), LocalStart(k, e) + 1, LocalEnd(k, e))
          ELSE <<>>) \o ReconstructedFrom(e, k + 1)

Reconstructed(e) == ReconstructedFrom(e, 1)
FlatValue(e) == SubSeq(FlatText, e.start + 1, e.end)

\* The effective replacement: the placeholder when the value is the original.
\* Under rule "flat" the original is the flat text under the entity, under
\* rule "units" it is the text reconstructed from the runs.
Effective(rule, e) ==
    IF e.value = Reconstructed(e) \/ (rule = "flat" /\ e.value = FlatValue(e))
    THEN <<"[", e.type, "]">>
    ELSE e.value

\* What run k must hold after the rewrite of non-overlapping entities: the
\* characters no entity covers, and the effective replacement of an entity
\* where its first fragment was, in the first run it overlaps.
Piece(k, i, rule) ==
    LET js == { j \in 1..Len(entities) : entities[j].start <= i /\ i < entities[j].end }
    IN IF js = {} THEN <<FlatText[i + 1]>>
       ELSE LET e == entities[CHOOSE j \in js : TRUE]
            IN IF FirstUnit(e) = k /\ i = Max(e.start, Snap[k].start)
               THEN Effective(rule, e) ELSE <<>>

RECURSIVE ExpectedFrom(_, _, _)
ExpectedFrom(k, i, rule) ==
    IF i >= Snap[k].end THEN <<>>
    ELSE Piece(k, i, rule) \o ExpectedFrom(k, i + 1, rule)

Expected(k, rule) ==
    IF Snap[k].start = Snap[k].end
    THEN LET js == { j \in 1..Len(entities) :
                       Over(k, entities[j]) /\ FirstUnit(entities[j]) = k }
         IN IF js = {} THEN <<>> ELSE Effective(rule, entities[CHOOSE j \in js : TRUE])
    ELSE ExpectedFrom(k, Snap[k].start, rule)

\* The rewriter ran over the whole entity list.
Rewritten == pc \in {"finish", "done"} /\ Len(entities) > 0 /\ Len(mapping) > 0

Perms(n) == { f \in [1..n -> 1..n] : \A i \in 1..n, j \in 1..n : i # j => f[i] # f[j] }
Permuted(ents, f) == [i \in 1..Len(ents) |-> ents[f[i]]]

\* C1 as claimed: after a rewrite of non-overlapping entities, every run
\* overlapped by an entity whose value is the flat text under it holds the
\* placeholder "[type]" in place of that text (in the first run overlapped)
\* and none of the characters the entity covered.
C1_PlaceholderFallback ==
    (Rewritten /\ Proper(entities) /\ NonOverlapping(entities)) =>
        \A j \in 1..Len(entities) :
            entities[j].value = FlatValue(entities[j]) =>
                \A k \in OverUnits(entities[j]) : FinalText(k) = Expected(k, "flat")

\* C2 as claimed: after a rewrite of non-overlapping entities, given in any
\* order, every run holds its uncovered snapshot characters unchanged and each
\* effective replacement once, where the first fragment of the entity was; the
\* result is the same for every permutation of the list.
C2_SingleInsertionAnyOrder ==
    (Rewritten /\ Proper(entities) /\ NonOverlapping(entities)) =>
        /\ \A k \in 1..Len(Snap) : FinalText(k) = Expected(k, "units")
        /\ \A f \in Perms(Len(entities)) :
            \A k \in 1..Len(Snap) :
                get_run(Snap[k].path,
                        replace_using_mapping(data, Permuted(entities, f), Snap)).text
                  = FinalText(k)

\* C3: one entity overlapping N >= 1 entries: the first overlapped run becomes
\* local prefix + effective replacement + local suffix, every later overlapped
\* run becomes local prefix + local suffix.
C3_SpliceRule ==
    (Rewritten /\ Len(entities) = 1 /\ Proper(entities)) =>
        LET e == entities[1] IN
        \A k \in OverUnits(e) :
            LET prefix == SubSeq(SnapText(k), 1, LocalStart(k, e))
                suffix == SubSeq(SnapText(k), LocalEnd(k, e) + 1, Len(SnapText(k)))
            IN FinalText(k) =
                 IF k = FirstUnit(e) THEN prefix \o Effective("units", e) \o suffix
                 ELSE prefix \o suffix

\* One entity over the two runs "a" + "b" of a paragraph: the first run holds
\* the replacement, the second is empty.
C3_Witness ==
    /\ Rewritten
    /\ Len(entities) = 1
    /\ Cardinality(OverUnits(entities[1])) = 2
    /\ SameParagraph(Snap[1].path, Snap[2].path)
    /\ SnapText(1) = <<"a">> /\ SnapText(2) = <<"b">>
    /\ entities[1].start = 0 /\ entities[1].end = 2
    /\ FinalText(1) = Effective("units", entities[1])
    /\ FinalText(2) = <<>>

\* The document with the watermark paragraphs of export_docx left out.
SameButWatermark(d, e) ==
    /\ d.paragraphs = e.paragraphs
    /\ d.tables = e.tables
    /\ Len(d.sections) = Len(e.sections)
    /\ \A s \in 1..Len(e.sections) :
        /\ d.sections[s].footer = e.sections[s].footer
        /\ SubSeq(d.sections[s].header.paragraphs, 1, Len(e.sections[s].header.paragraphs))
             = e.sections[s].header.paragraphs

\* C4 as claimed: export_docx with the table of an earlier projection of the
\* same bytes puts, for each (non-overlapping) entity, the supplied value, or
\* "[type]" when the value is the original, in place of the original text,
\* none of which stays; without entities or without a table nothing is rewritten.
C4_ExportReplaces ==
    (op = "export_docx" /\ pc = "done") =>
        IF Len(entities) > 0 /\ Len(mapping) > 0
        THEN (Proper(entities) /\ NonOverlapping(entities)) =>
                \A j \in 1..Len(entities) : \A k \in OverUnits(entities[j]) :
                    FinalText(k) = Expected(k, "units")
        ELSE SameButWatermark(doc, data)

\* C7: the rewriter leaves the numbers of body paragraphs, tables, header and
\* footer paragraphs and runs, the formatting of every run and the text of
\* every run that no entity overlaps as they were.
C7_Frame ==
    ~(op = "export_docx" /\ pc = "done") =>
        LET snap == Snap IN
        /\ Len(doc.paragraphs) = Len(data.paragraphs)
        /\ Len(doc.tables) = Len(data.tables)
        /\ Len(doc.sections) = Len(data.sections)
        /\ \A s \in 1..Len(data.sections) :
            /\ Len(doc.sections[s].header.paragraphs) = Len(data.sections[s].header.paragraphs)
            /\ Len(doc.sections[s].footer.paragraphs) = Len(data.sections[s].footer.paragraphs)
        /\ AllLocs(doc) = AllLocs(data)
        /\ \A k \in 1..Len(snap) :
            LET before == get_run(snap[k].path, data)
                after == get_run(snap[k].path, doc)
            IN /\ after # None /\ after # ValueError
               /\ after.fmt = before.fmt
               /\ (\A j \in 1..Len(entities) :
                      ~(snap[k].end > entities[j].start /\ snap[k].start < entities[j].end))
                    => after.text = before.text

\* A bold run received a replacement and a run beside it was left alone.
C7_Witness ==
    /\ op = "anonymize_docx"
    /\ pc = "done"
    /\ \E k \in 1..Len(Snap) :
        /\ get_run(Snap[k].path, doc).fmt = "bold"
        /\ FinalText(k) # SnapText(k)
    /\ \E k \in 1..Len(Snap) :
        /\ \A j \in 1..Len(entities) : ~Over(k, entities[j])
        /\ Len(SnapText(k)) > 0
        /\ FinalText(k) = SnapText(k)

\* C8: after anonymize_docx author, title and subject are what they were.
C8_MetadataPreserved ==
    (op = "anonymize_docx" /\ pc = "done") =>
        /\ doc.core_properties.author = data.core_properties.author
        /\ doc.core_properties.title = data.core_properties.title
        /\ doc.core_properties.subject = data.core_properties.subject

C8_Witness ==
    /\ op = "anonymize_docx"
    /\ pc = "done"
    /\ Len(entities) >= 2
    /\ data.core_properties.title = <<"T", "i", "t", "r", "e">>
    /\ data.core_properties.subject = <<>>
    /\ doc.core_properties = data.core_properties
    /\ \E k \in 1..Len(Snap) : FinalText(k) # SnapText(k)

\* ------------------------------------------------ page and section tracking
\* The runs recorded before entry k that carry a page break.
BreaksBefore(k) ==
    Cardinality({ j \in 1..(k - 1) : get_run(mapping[j].path, data).pb })

\* C11: the page index of an entry is the number of runs carrying a page
\* break that precede it in the traversal; the run that holds the break keeps
\* the index in force before it, and the counter after the last entry counts
\* every break met.
C11_PageTracking ==
    /\ \A k \in 1..Len(mapping) : mapping[k].page = BreaksBefore(k)
    /\ page = BreaksBefore(Len(mapping) + 1)

\* A break in each of two body paragraphs: the runs holding them have pages 0
\* and 1, a table entry and a footer entry have page 2.
C11_Witness ==
    /\ op = "docx_text_mapping"
    /\ pc = "mapped"
    /\ \E k \in 1..Len(mapping) :
        get_run(mapping[k].path, data).pb /\ mapping[k].page = 0
    /\ \E k \in 1..Len(mapping) :
        get_run(mapping[k].path, data).pb /\ mapping[k].page = 1
    /\ \E k \in 1..Len(mapping) : mapping[k].path[1] = "table" /\ mapping[k].page = 2
    /\ \E k \in 1..Len(mapping) : mapping[k].path[1] = "footer" /\ mapping[k].page = 2

\* The section-ending body paragraphs of index below p.
SectionEndsBefore(p) ==
    Cardinality({ q \in 1..Len(data.paragraphs) : q - 1 < p /\ data.paragraphs[q].sect })

\* The value of the section counter when the entry of a locator is produced.
CounterAt(path) ==
    IF path[1] = "body" THEN SectionEndsBefore(path[2])
    ELSE SectionEndsBefore(Len(data.paragraphs))

\* C12 as claimed: every entry, header and footer entries included, carries
\* the value of the section counter at the moment it is produced.
C12_SectionIsCounter ==
    \A k \in 1..Len(mapping) : mapping[k].section = CounterAt(mapping[k].path)

\* C12 amended: body and table entries carry the value of the section counter
\* at the moment they are produced (the runs of a section-ending paragraph the
\* value before the increment); header and footer entries carry the index of
\* their section in the list of sections.
C12_SectionTracking ==
    /\ \A k \in 1..Len(mapping) :
        mapping[k].section =
            IF mapping[k].path[1] \in {"body", "table"} THEN CounterAt(mapping[k].path)
            ELSE mapping[k].path[2]
    /\ pc # "body" => section = SectionEndsBefore(Len(data.paragraphs))

\* Two section-ending body paragraphs, then a table entry with section 2 and
\* a header entry of the first section with section 0.
C12_Witness ==
    /\ op = "docx_text_mapping"
    /\ pc = "mapped"
    /\ section = 2
    /\ \E k \in 1..Len(mapping) :
        /\ mapping[k].path[1] = "body" /\ mapping[k].path[2] = 1
        /\ data.paragraphs[2].sect /\ mapping[k].section = 1
    /\ \E k \in 1..Len(mapping) : mapping[k].path[1] = "table" /\ mapping[k].section = 2
    /\ \E k \in 1..Len(mapping) :
        mapping[k].path[1] = "header" /\ mapping[k].path[2] = 0 /\ mapping[k].section = 0

\* ------------------------------------------------------- projection failures
\* A run is lost with a malformed unit when the unit is the run itself or one
\* of the units above it.
Lost(path) == \E n \in 2..Len(path) : Raises(SubSeq(path, 1, n))

\* C13 as claimed: after a projection in which units failed, every run that is
\* not below a failed unit has its entry, and the entry holds the text of the
\* run in the flat text.
C13_OnlyFailedUnitLost ==
    pc = "mapped" =>
        \A loc \in AllLocs(data) :
            ~Lost(loc) =>
                \E k \in 1..Len(mapping) :
                    /\ mapping[k].path = loc
                    /\ SubSeq(parts, mapping[k].start + 1, mapping[k].end)
                         = get_run(loc, data).text

\* ------------------------------------------------------------ structural drift
\* The entries of a table whose locator resolves against d.
Resolvable(m, d) == SelectSeq(m, LAMBDA e : Resolves(e.path, d))

\* C14 as claimed: with a table some of whose locators cannot be resolved
\* (out of range, unknown kind, empty or malformed path), the rewriter leaves
\* the document as it would with those entries absent from the table: every
\* entity is applied to the units that resolve, its replacement going into the
\* first of them.
C14_DriftSkipsEntryOnly ==
    (op = "export_docx" /\ pc = "finish") =>
        doc = replace_using_mapping(data, entities, Resolvable(mapping, data))

\* ------------------------------------------- vocabulary of the resolver properties
\* The value v stands in the page text at index i.
Occurs(v, i) ==
    /\ 0 <= i
    /\ i + Len(v) <= Len(pdf_text)
    /\ SubSeq(pdf_text, i + 1, i + Len(v)) = v

AllSet(e) ==
    e.page # None /\ e.x # None /\ e.y # None /\ e.width # None /\ e.height # None
AllUnset(e) ==
    e.page = None /\ e.x = None /\ e.y = None /\ e.width = None /\ e.height = None

\* The entity the k-th iteration took, and the cursor after that iteration.
Taken(k) == entities[trace[k].ent]
CursorAfter(k) == IF k < Len(trace) THEN trace[k + 1].search_pos ELSE search_pos

\* The records of the glyph index inside the span the k-th iteration matched.
InSpan(k) ==
    { i \in 1..Len(char_map) :
        /\ trace[k].idx <= char_map[i].index
        /\ char_map[i].index < trace[k].idx + Len(Taken(k).value) }

\* Every occurrence of v in the page text lies among the glyphs of page n.
OnlyOnPage(v, n) ==
    /\ \E i \in 0..Len(pdf_text) : Occurs(v, i)
    /\ \A i \in 0..Len(pdf_text) :
        Occurs(v, i) =>
            \A c \in 1..Len(char_map) :
                (i <= char_map[c].index /\ char_map[c].index < i + Len(v))
                    => char_map[c].page = n

\* C15: the search cursor never decreases and an entity that is not found
\* leaves it where it was; a match lies at or after the cursor; entities are
\* taken in the order of their start offsets, and the ranges matched for any
\* two of them are disjoint and in that same order.
C15_NonOverlap ==
    /\ \A k \in 1..Len(trace) :
        /\ CursorAfter(k) >= trace[k].search_pos
        /\ trace[k].idx = -1 => CursorAfter(k) = trace[k].search_pos
        /\ trace[k].idx # -1 =>
            /\ trace[k].idx >= trace[k].search_pos
            /\ CursorAfter(k) = trace[k].idx + Len(Taken(k).value)
            /\ Occurs(Taken(k).value, trace[k].idx)
    /\ \A i \in 1..Len(trace), j \in 1..Len(trace) :
        i < j =>
            /\ Taken(i).start <= Taken(j).start
            /\ (trace[i].idx # -1 /\ trace[j].idx # -1)
                 => trace[i].idx + Len(Taken(i).value) <= trace[j].idx

\* Two entities resolved one after the other, the second of the list first
\* because its start is lower.
C15_Witness ==
    /\ op = "anonymize_pdf"
    /\ pc = "done"
    /\ Len(trace) = 2
    /\ trace[1].ent = 2
    /\ Taken(1).value = Taken(2).value
    /\ AllSet(Taken(1)) /\ AllSet(Taken(2))
    /\ trace[1].idx < trace[2].idx

\* C16: an entity is resolved exactly when its value is found and the span
\* holds glyph records; its page is that of the first record of the span and
\* its box is (min x0, min top, max x1 - min x0, max bottom - min top) over the
\* records of the span.  A resolved entity whose value occurs only on page 2
\* of a two-page stream has page 2 and a box made of page-2 records only.
C16_BoundingBox ==
    \A k \in 1..Len(trace) :
        LET e == Taken(k)
            G == InSpan(k)
            x0 == MinOf({ char_map[i].x0 : i \in G })
            x1 == MaxOf({ char_map[i].x1 : i \in G })
            top == MinOf({ char_map[i].top : i \in G })
            bottom == MaxOf({ char_map[i].bottom : i \in G })
        IN /\ AllSet(e) <=> (trace[k].idx # -1 /\ G # {})
           /\ AllSet(e) =>
               /\ e.page = Some(char_map[MinOf(G)].page)
               /\ e.x = Some(x0)
               /\ e.y = Some(top)
               /\ e.width = Some(x1 - x0)
               /\ e.height = Some(bottom - top)
           /\ (AllSet(e) /\ Len(pdf.pages) = 2 /\ OnlyOnPage(e.value, 2)) =>
               /\ e.page = Some(2)
               /\ \A i \in G : char_map[i].page = 2

\* "ab" stands only on page 2, as the glyphs a (3..4, 1..2) and b (1..2, 2..4):
\* the entity has page 2 and the box (1, 1, 3, 3).
C16_Witness ==
    /\ op = "anonymize_pdf"
    /\ pc = "done"
    /\ Len(pdf.pages) = 2
    /\ \E k \in 1..Len(trace) :
        /\ Taken(k).value = <<"a", "b">>
        /\ OnlyOnPage(Taken(k).value, 2)
        /\ Cardinality(InSpan(k)) = 2
        /\ Taken(k).page = Some(2)
        /\ Taken(k).x = Some(1) /\ Taken(k).y = Some(1)
        /\ Taken(k).width = Some(3) /\ Taken(k).height = Some(3)
    /\ \E c \in 1..Len(char_map) : char_map[c].page = 1

\* C17: an entity whose value does not occur in the page text at or after the
\* cursor keeps its five position fields unset; nothing is raised and the
\* entities after it are taken; every entity has all five fields set or none.
C17_Unmatched ==
    /\ \A k \in 1..Len(trace) :
        (~\E i \in trace[k].search_pos..Len(pdf_text) : Occurs(Taken(k).value, i))
            => (trace[k].idx = -1 /\ AllUnset(Taken(k)))
    /\ \A j \in 1..Len(entities) : AllSet(entities[j]) \/ AllUnset(entities[j])
    /\ pc # "raised"
    /\ pc = "resolve" => Len(trace) = ei
    /\ (pc = "done" /\ pdf.readable) => Len(trace) = Len(entities)

\* The first entity taken is not found, the one after it is resolved.
C17_Witness ==
    /\ op = "anonymize_pdf"
    /\ pc = "done"
    /\ Len(trace) = 2
    /\ trace[1].idx = -1 /\ AllUnset(Taken(1))
    /\ trace[2].idx # -1 /\ AllSet(Taken(2))

\* The glyphs with text of page n, and their texts joined.
TextGlyphs(n) == SelectSeq(pdf.pages[n].chars, LAMBDA g : Len(g.text) > 0)

RECURSIVE GlyphText(_)
GlyphText(gs) == IF Len(gs) = 0 THEN <<>> ELSE Head(gs).text \o GlyphText(Tail(gs))

\* What the readable pages among the first n hold: their glyphs with text,
\* each with its page number, and their text, a line per page.
RECURSIVE ReadGlyphs(_)
ReadGlyphs(n) ==
    IF n = 0 THEN <<>>
    ELSE ReadGlyphs(n - 1) \o
         (IF pdf.pages[n].readable
          THEN [i \in 1..Len(TextGlyphs(n)) |-> [page |-> n, glyph |-> TextGlyphs(n)[i]]]
          ELSE <<>>)

RECURSIVE ReadText(_)
ReadText(n) ==
    IF n = 0 THEN <<>>
    ELSE ReadText(n - 1) \o
         (IF pdf.pages[n].readable THEN GlyphText(TextGlyphs(n)) \o NL ELSE <<>>)

\* C18: a page whose scan fails adds nothing to the glyph index nor to the
\* page text: the index holds the glyphs of the readable pages and no record
\* of a failed page, the text is that of the readable pages, each record's
\* index is the position of its characters in the text, and the pages after
\* the failed one and all the entities are still taken.
C18_PageScanFailure ==
    LET text == join(pdf_text_parts)
        G == ReadGlyphs(page_num)
    IN /\ \A c \in 1..Len(char_map) : pdf.pages[char_map[c].page].readable
       /\ text = ReadText(page_num)
       /\ pdf_pos = Len(text)
       /\ Len(char_map) = Len(G)
       /\ \A c \in 1..Len(char_map) :
           /\ char_map[c].page = G[c].page
           /\ char_map[c].x0 = G[c].glyph.x0 /\ char_map[c].x1 = G[c].glyph.x1
           /\ char_map[c].top = G[c].glyph.top /\ char_map[c].bottom = G[c].glyph.bottom
           /\ SubSeq(text, char_map[c].index + 1, char_map[c].index + Len(G[c].glyph.text))
                = G[c].glyph.text
       /\ (pc \in {"resolve", "done"} /\ pdf.readable) =>
           (page_num = Len(pdf.pages) /\ pdf_text = text)
       /\ (pc = "done" /\ pdf.readable) => Len(trace) = Len(entities)

\* Page 1 cannot be read: the index starts at 0 with the glyphs of page 2, and
\* an entity is resolved on page 2.
C18_Witness ==
    /\ op = "anonymize_pdf"
    /\ pc = "done"
    /\ Len(pdf.pages) = 2
    /\ ~pdf.pages[1].readable /\ Len(pdf.pages[1].chars) > 0
    /\ pdf.pages[2].readable
    /\ Len(char_map) > 0 /\ char_map[1].index = 0 /\ char_map[1].page = 2
    /\ \E j \in 1..Len(entities) : entities[j].page = Some(2)

\* type, value, start and end of an entity.
BaseOf(e) == [type |-> e.type, value |-> e.value, start |-> e.start, end |-> e.end]
Base(ents) == [j \in 1..Len(ents) |-> BaseOf(ents[j])]

\* C19 as claimed: resolving positions leaves the entity objects it was given
\* as they were, position fields included.
C19_InputEntitiesUnchanged == entities = detected

\* C19 amended: no step of the resolver changes the glyph stream, the length
\* or order of the entity list, or the type, value, start or end of an entity;
\* the position fields are written in place, on the entities of the list that
\* was given (the list anonymize_pdf returns), all five at once and only where
\* they were unset.
C19_ResolverFrame ==
    [][ /\ pdf' = pdf
        /\ detected' = detected
        /\ Base(entities') = Base(entities)
        /\ \A j \in 1..Len(entities) :
            \/ entities'[j] = entities[j]
            \/ AllUnset(entities[j]) /\ AllSet(entities'[j]) ]_vars

\* The list returned holds a position the list given did not have.
C19_Witness ==
    /\ op = "anonymize_pdf"
    /\ pc = "done"
    /\ Len(entities) = 2
    /\ Base(entities) = Base(detected)
    /\ AllUnset(detected[1]) /\ AllSet(entities[1])
    /\ AllUnset(entities[2])

\* C20: whatever fails while the boxes are extracted (a page, the whole glyph
\* source), anonymize_pdf goes on to its return (short of it a step can be
\* taken: the loops are within their lists), nothing is raised, and the
\* anonymized document, the projection table, the flat text and the type,
\* value, start and end of every entity are those anonymize_docx produced.
C20_AuxiliaryStep ==
    /\ pc # "raised"
    /\ pc \in {"bbox", "scan", "resolve", "done"}
    /\ pc = "scan" => page_num <= Len(pdf.pages)
    /\ pc = "resolve" => ei <= Len(entities)
    /\ parts = docx_text_mapping(data).parts
    /\ mapping = docx_text_mapping(data).mapping
    /\ doc = restore_metadata(replace_using_mapping(data, detected, mapping),
                              data.core_properties)
    /\ Base(entities) = Base(detected)

\* The glyph source cannot be opened: the anonymized document is returned, the
\* entities without position.
C20_Witness ==
    /\ op = "anonymize_pdf"
    /\ pc = "done"
    /\ ~pdf.readable
    /\ Len(entities) > 0
    /\ doc # data
    /\ \A j \in 1..Len(entities) : AllUnset(entities[j])

\* ------------------------------------------- the projection table, stored
\* A Python list is the record [list |-> items], a tuple a sequence, a dict a
\* function of its keys.
list(t) == [list |-> t]
tuple(l) == l.list

\* dict.get(key, default)
get(d, key, default) == IF key \in DOMAIN d THEN d[key] ELSE default

\* (The variant is the fallback of to_dict's handler: the path is dropped.)
to_dict_fallback(r) ==
    [start |-> r.start, end |-> r.end, page |-> r.page, section |-> r.section,
     path |-> list(<<>>)]

\* RunInfo.to_dict
to_dict(r) ==
    [start |-> r.start, end |-> r.end, page |-> r.page, section |-> r.section,
     path |-> list(r.path)]

\* RunInfo.from_dict
from_dict(d) ==
    RunInfo(get(d, "start", 0), get(d, "end", 0), get(d, "page", 0),
            get(d, "section", 0), tuple(get(d, "path", list(<<>>))))

\* json.dumps / json.loads of JSONStore._persist and _load_data, on the values
\* a stored mapping holds: the first component of a path is its kind tag, a
\* str, the others and the four offsets are ints; a list becomes an array.
json_dumps_path(l) ==
    [array |-> [i \in 1..Len(l.list) |->
                   IF i = 1 THEN [string |-> l.list[i]] ELSE [number |-> l.list[i]]]]

json_dumps_dict(d) ==
    [object |-> [k \in DOMAIN d |->
                    IF k = "path" THEN json_dumps_path(d[k]) ELSE [number |-> d[k]]]]

json_dumps(l) ==
    [array |-> [i \in 1..Len(l.list) |-> json_dumps_dict(l.list[i])]]

json_loads_item(j) ==
    IF "string" \in DOMAIN j THEN j.string ELSE j.number

json_loads_path(j) ==
    list([i \in 1..Len(j.array) |-> json_loads_item(j.array[i])])

json_loads_dict(j) ==
    [k \in DOMAIN j.object |->
        IF "array" \in DOMAIN j.object[k] THEN json_loads_path(j.object[k])
        ELSE json_loads_item(j.object[k])]

json_loads(j) ==
    list([i \in 1..Len(j.array) |-> json_loads_dict(j.array[i])])

storestate == <<jobs_store, entities_store, groups_store, task, expired, created>>

\* One iteration of "for m in mapping: safe_mapping.append(m.to_dict())".
SaveMapping ==
    /\ pc = "mapped"
    /\ Len(safe_mapping) < Len(mapping)
    /\ safe_mapping' = Append(safe_mapping, to_dict(mapping[Len(safe_mapping) + 1]))
    /\ UNCHANGED <<docxstate, pc, entities, ei, pdfstate, mapping_data, rebuilt, storestate>>

\* jobs_store.update(job_id, {"status": "completed", "result": result, ...})
StoreResult ==
    /\ pc = "mapped"
    /\ Len(safe_mapping) = Len(mapping)
    /\ mapping_data' = list(safe_mapping)
    /\ pc' = "stored"
    /\ UNCHANGED <<docxstate, entities, ei, pdfstate, safe_mapping, rebuilt, storestate>>

\* A restart of the server: the store is read back from the JSON file that
\* _persist wrote.
Reload ==
    /\ pc = "stored"
    /\ mapping_data' = json_loads(json_dumps(mapping_data))
    /\ pc' = "reloaded"
    /\ UNCHANGED <<docxstate, entities, ei, pdfstate, safe_mapping, rebuilt, storestate>>

\* export_job: one iteration of "for m in mapping_data:
\* mapping.append(RunInfo.from_dict(m))".
RebuildMapping ==
    /\ pc \in {"stored", "reloaded"}
    /\ Len(rebuilt) < Len(mapping_data.list)
    /\ rebuilt' = Append(rebuilt, from_dict(mapping_data.list[Len(rebuilt) + 1]))
    /\ UNCHANGED <<docxstate, pc, entities, ei, pdfstate, safe_mapping, mapping_data, storestate>>

\* _process_file on a document, from the projection anonymize_docx makes to
\* the stored result, followed by export_job on that result.
DictNext ==
    \/ ProjNext
    \/ SaveMapping
    \/ StoreResult
    \/ Reload
    \/ RebuildMapping

DictSpec == ProjInit /\ [][DictNext]_vars

\* C21: a projection entry survives to_dict followed by from_dict, directly
\* and through the JSON file of the store: the entry export_job reconstructs
\* equals the entry projection produced (start, end, page, section, path) and
\* resolves to the same run of the document.
C21_DictRoundTrip ==
    /\ \A k \in 1..Len(mapping) :
        /\ from_dict(to_dict(mapping[k])) = mapping[k]
        /\ from_dict(json_loads_dict(json_dumps_dict(to_dict(mapping[k])))) = mapping[k]
    /\ \A k \in 1..Len(rebuilt) :
        /\ rebuilt[k] = mapping[k]
        /\ get_run(rebuilt[k].path, data) = get_run(mapping[k].path, data)

C21_Witness ==
    /\ pc = "reloaded"
    /\ Len(mapping) >= 2
    /\ Len(rebuilt) = Len(mapping)
    /\ Kinds(rebuilt) = {"body", "table", "header", "footer"}
    /\ \E k \in 1..Len(rebuilt) : rebuilt[k].page > 0
    /\ \E k \in 1..Len(rebuilt) : rebuilt[k].section > 0

\* The length of the line "<type>: <value>" of an entity (the type is one
\* symbol of the text), and the offset in the report at which the line of the
\* i-th entity starts when the lines are joined by single newlines.
LineLen(e) == 3 + Len(e.value)

RECURSIVE LineStart(_, _)
LineStart(ents, i) ==
    IF i <= 1 THEN 0 ELSE LineStart(ents, i - 1) + LineLen(ents[i - 1]) + 1

\* The document export_docx saves, whatever the audit flag.
Exported ==
    LET rewritten == replace_using_mapping(data, entities, mapping) IN
    IF watermark # <<>> THEN add_watermark(rewritten, watermark) ELSE rewritten

\* C22: when export_docx has returned, the report is None unless the audit
\* flag was set and the entity list is not empty; then it holds, for each
\* entity in list order, the line "<type>: <value>", consecutive lines being
\* separated by one newline and nothing else; the document is the one the
\* rewrite and the watermark produce, with or without a report.
C22_AuditReport ==
    (op = "export_docx" /\ pc = "done") =>
        /\ IF audit /\ Len(entities) > 0
           THEN /\ Len(report) = LineStart(entities, Len(entities) + 1) - 1
                /\ \A i \in 1..Len(entities) :
                    LET o == LineStart(entities, i)
                        e == entities[i]
                    IN /\ report[o + 1] = e.type
                       /\ report[o + 2] = ":"
                       /\ report[o + 3] = " "
                       /\ SubSeq(report, o + 4, o + 3 + Len(e.value)) = e.value
                       /\ i < Len(entities) => report[o + LineLen(e) + 1] = "\n"
           ELSE report = NoReport
        /\ doc = Exported

C22_Witness ==
    /\ op = "export_docx"
    /\ pc = "done"
    /\ audit
    /\ Len(entities) = 2
    /\ entities[1].type # entities[2].type
    /\ entities[1].value # entities[2].value
    /\ report # NoReport
    /\ doc # data

EmptyDict == <<>>

\* dict[key] = value
put(d, key, value) ==
    [k \in DOMAIN d \cup {key} |-> IF k = key THEN value ELSE d[k]]

\* JSONStore.get(key, default)
store_get(store, key, default) == get(store, key, default)

\* NestedJSONStore.list(job_id): the values of the job's dict.
store_list(store, job_id) ==
    LET job_data == store_get(store, job_id, EmptyDict) IN
    { job_data[k] : k \in DOMAIN job_data }

\* NestedJSONStore.get_nested(job_id, item_id)
get_nested(store, job_id, item_id) ==
    get(store_get(store, job_id, EmptyDict), item_id, None)

\* (The variant keeps one dict of items for all jobs.)
set_nested_shared(store, job_id, item_id, value) ==
    [j \in DOMAIN store \cup {job_id} |->
        put(store_get(store, j, EmptyDict), item_id, value)]

\* NestedJSONStore.set_nested(job_id, item_id, value)
set_nested(store, job_id, item_id, value) ==
    put(store, job_id, put(store_get(store, job_id, EmptyDict), item_id, value))

\* The requests of the clients: job ids, item ids and values they send.
JobIds == {"job1", "job2"}
EntityIds == {"e1", "e2"}
GroupIds == {"g1"}
EntityValues == {"Alice", "Bob"}

\* entity.dict() and group.dict(), as far as the stores are concerned; the
\* group_id of an entity is None or Some(id).
EntityModel(id, value, group_id) == [id |-> id, value |-> value, group_id |-> group_id]
GroupModel(id, members) == [id |-> id, entities |-> members]

Contains(seq, x) == \E i \in 1..Len(seq) : seq[i] = x

enginestate ==
    <<docxstate, pc, entities, ei, pdfstate, safe_mapping, mapping_data, rebuilt>>

EmptyDoc == Doc(<<>>, <<>>, <<>>, Core(<<>>, <<>>, <<>>))

NothingCreated == [entities |-> {}, groups |-> {}]

\* The server with empty stores.
ServeInit ==
    /\ data = EmptyDoc
    /\ faults = {}
    /\ op = "serve"
    /\ pc = "idle"
    /\ PdfIdle
    /\ doc = data
    /\ parts = <<>>
    /\ mapping = <<>>
    /\ pos = 0
    /\ page = 0
    /\ section = 0
    /\ core_props = Core(<<>>, <<>>, <<>>)
    /\ entities = <<>>
    /\ ei = 0
    /\ watermark = <<>>
    /\ report = NoReport
    /\ audit = FALSE
    /\ safe_mapping = <<>>
    /\ mapping_data = None
    /\ rebuilt = <<>>
    /\ jobs_store = EmptyDict
    /\ entities_store = EmptyDict
    /\ groups_store = EmptyDict
    /\ task = EmptyDict
    /\ expired = EmptyDict
    /\ created = NothingCreated

\* POST /entities/{job_id}
create_entity ==
    \E job_id \in JobIds, id \in EntityIds, value \in EntityValues :
        /\ entities_store' = set_nested(entities_store, job_id, id,
                                        EntityModel(id, value, None))
        /\ created' = [created EXCEPT !.entities =
                          { c \in @ : ~(c.job_id = job_id /\ c.id = id) }
                          \cup { [job_id |-> job_id, id |-> id, value |-> value] }]
        /\ UNCHANGED <<enginestate, jobs_store, groups_store, task, expired>>

\* POST /groups/{job_id}
create_group ==
    \E job_id \in JobIds, id \in GroupIds :
        /\ groups_store' = set_nested(groups_store, job_id, id, GroupModel(id, <<>>))
        /\ created' = [created EXCEPT !.groups =
                          @ \cup { [job_id |-> job_id, id |-> id] }]
        /\ UNCHANGED <<enginestate, jobs_store, entities_store, task, expired>>

\* POST /groups/{job_id}/{group_id}/entities/{entity_id}; a group or an
\* entity the job does not have is answered with 404.
add_entity_to_group ==
    \E job_id \in JobIds, group_id \in GroupIds, entity_id \in EntityIds :
        LET group == get_nested(groups_store, job_id, group_id)
            entity == get_nested(entities_store, job_id, entity_id)
        IN /\ group # None
           /\ entity # None
           /\ groups_store' =
                set_nested(groups_store, job_id, group_id,
                           IF Contains(group.entities, entity_id) THEN group
                           ELSE [group EXCEPT !.entities = Append(@, entity_id)])
           /\ entities_store' =
                set_nested(entities_store, job_id, entity_id,
                           [entity EXCEPT !.group_id = Some(group_id)])
           /\ UNCHANGED <<enginestate, jobs_store, task, expired, created>>

ScopeNext ==
    \/ create_entity
    \/ create_group
    \/ add_entity_to_group

ScopeSpec == ServeInit /\ [][ScopeNext]_vars

\* What was created under a job.
CreatedEntities(job_id) ==
    { [id |-> c.id, value |-> c.value] : c \in { x \in created.entities : x.job_id = job_id } }
CreatedGroups(job_id) ==
    { c.id : c \in { x \in created.groups : x.job_id = job_id } }

\* GET /entities/{job_id} and GET /groups/{job_id}
list_entities(job_id) == store_list(entities_store, job_id)
list_groups(job_id) == store_list(groups_store, job_id)

\* C24: after any sequence of create_entity, create_group and
\* add_entity_to_group on several job ids, the entities listed for a job are
\* exactly the entities created under that job (by id and value), the groups
\* listed are exactly the groups created under it, and the members of a listed
\* group and the group of a listed entity are items created under the same job.
C24_ScopedByJob ==
    \A job_id \in JobIds :
        /\ { [id |-> e.id, value |-> e.value] : e \in list_entities(job_id) }
             = CreatedEntities(job_id)
        /\ { g.id : g \in list_groups(job_id) } = CreatedGroups(job_id)
        /\ \A g \in list_groups(job_id) : \A i \in 1..Len(g.entities) :
              g.entities[i] \in { c.id : c \in CreatedEntities(job_id) }
        /\ \A e \in list_entities(job_id) :
              e.group_id # None => e.group_id.val \in CreatedGroups(job_id)

C24_Witness ==
    /\ \E e1 \in list_entities("job1"), e2 \in list_entities("job2") :
          e1.id = e2.id /\ e1.value # e2.value /\ e1.group_id # None /\ e2.group_id = None
    /\ \E g \in list_groups("job1") : Len(g.entities) > 0
    /\ list_groups("job2") = {}

\* The locators whose run gets "run.text = ..." during the inner loop of one
\* entity, in the order of the assignments (the conditions of splice_from).
RECURSIVE assigned_from(_, _, _, _)
assigned_from(d, ent, table, i) ==
    IF i > Len(table) THEN <<>>
    ELSE LET m == table[i] IN
         IF ~overlaps(m, ent) THEN assigned_from(d, ent, table, i + 1)
         ELSE LET run == get_run(m.path, d) IN
              IF run = ValueError THEN <<>>
              ELSE IF run = None THEN assigned_from(d, ent, table, i + 1)
              ELSE <<m.path>> \o assigned_from(d, ent, table, i + 1)

assigned(d, ent, table) ==
    IF original_text(ent, d, table).raised THEN <<>>
    ELSE assigned_from(d, ent, table, 1)

\* The assignments of the first n iterations of "for ent in entities".
RECURSIVE assignments(_, _, _, _)
assignments(d, ents, table, n) ==
    IF n = 0 THEN <<>>
    ELSE assignments(d, ents, table, n - 1) \o assigned(d, ents[n], table)

Count(seq, x) == Cardinality({ i \in 1..Len(seq) : seq[i] = x })

\* C25: in one rewrite operation no run has its text assigned more than once:
\* among the assignments the loop over the entities has made so far, every
\* locator occurs at most one time.
C25_RewrittenAtMostOnce ==
    (pc \in {"replace", "finish", "done"} /\ op \in {"anonymize_docx", "export_docx"}) =>
        LET done == assignments(data, entities, mapping, ei) IN
        \A i \in 1..Len(done) : Count(done, done[i]) <= 1

\* Entities of length zero: any type, any offset of the flat text (inside a
\* run, at the boundary of a run, on a separator, at the end), and a value
\* that is empty or not.
ZeroLength(text) ==
    { Entity(Types[k], v, p, p) :
        k \in 1..Len(Types), v \in { <<>>, <<"X">> }, p \in 0..Len(text) }

\* export_docx(data, mapping, entities, ...) called with entities of length
\* zero: the state after the document is opened and the guard "if entities and
\* mapping" is evaluated.
ZeroInit ==
    /\ data \in RwDocs
    /\ faults = {}
    /\ op = "export_docx"
    /\ doc = data
    /\ parts = docx_text_mapping(data).parts
    /\ pos = docx_text_mapping(data).pos
    /\ page = docx_text_mapping(data).page
    /\ section = docx_text_mapping(data).section
    /\ mapping = docx_text_mapping(data).mapping
    /\ \E n \in 0..MaxEnts : entities \in [1..n -> ZeroLength(parts)]
    /\ pc = IF Len(entities) # 0 /\ Len(mapping) # 0 THEN "replace" ELSE "finish"
    /\ core_props = Core(<<>>, <<>>, <<>>)
    /\ ei = 0
    /\ watermark = <<>>
    /\ report = NoReport
    /\ audit = FALSE
    /\ PdfIdle
    /\ AppIdle

ZeroSpec == ZeroInit /\ [][DriftNext]_vars

\* C26: entities of length zero leave the text of every run as the document
\* had it, whatever their value and offset.
C26_ZeroLengthNoOp ==
    LET snap == docx_text_mapping(data).mapping IN
    \A k \in 1..Len(snap) :
        get_run(snap[k].path, doc).text = get_run(snap[k].path, data).text

\* The paragraph a locator lies in: the path without its run index.
ParagraphOf(path) == SubSeq(path, 1, Len(path) - 1)

\* C27: two successive entries of the projection table that lie in different
\* paragraphs have at least one separator character between them in the flat
\* text.
C27_ParagraphsSeparated ==
    \A k \in 1..(Len(mapping) - 1) :
        ParagraphOf(mapping[k].path) # ParagraphOf(mapping[k + 1].path) =>
            \E p \in (mapping[k].end + 1)..mapping[k + 1].start : parts[p] \in Separators

\* What the detector returns when a match may run over one more character
\* than MaxSpan: ADDRESS and LOC match \s, so a value may hold the separator
\* between two paragraphs and a character on each side of it.
WideSpans(text) ==
    { sp \in (0..Len(text)) \X (0..Len(text)) :
        sp[1] < sp[2] /\ sp[2] - sp[1] <= MaxSpan + 1 }

WideDetected(text) ==
    { Entity(Types[1], SubSeq(text, sp[1] + 1, sp[2]), sp[1], sp[2]) : sp \in WideSpans(text) }

\* The converted documents whose body has two paragraphs (flat text "a\nb\n").
PageDocs == { d \in RwDocs : Len(d.paragraphs) = 2 }

\* anonymize_pdf(data) after anonymize_docx has returned, as PdfInit, on a PDF
\* whose text was converted to two paragraphs.
PageInit ==
    /\ data \in PageDocs
    /\ faults = {}
    /\ op = "anonymize_pdf"
    /\ pc = "bbox"
    /\ parts = docx_text_mapping(data).parts
    /\ pos = docx_text_mapping(data).pos
    /\ page = docx_text_mapping(data).page
    /\ section = docx_text_mapping(data).section
    /\ mapping = docx_text_mapping(data).mapping
    /\ \E n \in 0..MaxEnts : detected \in [1..n -> WideDetected(parts)]
    /\ DetectOrdered(detected)
    /\ entities = detected
    /\ doc = restore_metadata(replace_using_mapping(data, detected, mapping),
                              data.core_properties)
    /\ core_props = data.core_properties
    /\ ei = 0
    /\ watermark = <<>>
    /\ report = NoReport
    /\ audit = FALSE
    /\ pdf \in Pdfs
    /\ char_map = <<>>
    /\ pdf_text_parts = <<>>
    /\ pdf_text = <<>>
    /\ pdf_pos = 0
    /\ page_num = 0
    /\ search_pos = 0
    /\ trace = <<>>
    /\ AppIdle

PageSpec == PageInit /\ [][PdfNext]_vars

\* C28: the glyph records collected for the span an entity matched all lie
\* on the page the entity is given.
C28_SinglePage ==
    \A k \in 1..Len(trace) :
        AllSet(Taken(k)) =>
            \A i \in InSpan(k) : Some(char_map[i].page) = Taken(k).page

\* ------------------------------------------------------------ the job store
\* current.update(updates)
merge(current, updates) ==
    [k \in DOMAIN current \cup DOMAIN updates |->
        IF k \in DOMAIN updates THEN updates[k] ELSE current[k]]

\* JSONStore.set(key, value)
store_set(store, key, value) == put(store, key, value)

\* JSONStore.update(key, updates): the stored value is a dict or absent.
store_update(store, key, updates) ==
    put(store, key, merge(store_get(store, key, EmptyDict), updates))

\* job.get("status") == status
HasStatus(job, status) == "status" \in DOMAIN job /\ job.status = status

\* What upload accepts.
ALLOWED_EXTENSIONS == {"pdf", "docx"}
Modes == {"regex", "ai"}

\* The record upload_file stores for a new job.  A timestamp is the moment it
\* names; whether created_at is more than 30 minutes ago is kept in expired.
NewJob(job_id, mode, extension) ==
    [id |-> job_id, status |-> "processing", progress |-> 0, mode |-> mode,
     entities_detected |-> 0, eta |-> None, filename |-> extension,
     created_at |-> "upload", updated_at |-> "upload"]

\* The record _process_file stores when it ends in an error.
ErrorJob(message, mode) ==
    [status |-> "error", message |-> message, mode |-> mode,
     entities_detected |-> 0, eta |-> Some(0), updated_at |-> "error"]

\* The entities _process_file saves for a job.
DetectedData == put(EmptyDict, "e1", EntityModel("e1", "Alice", None))

jobstate == <<enginestate, groups_store, created>>

\* POST /upload: the job id is a fresh uuid4.
upload_file ==
    \E job_id \in JobIds, mode \in Modes, extension \in ALLOWED_EXTENSIONS :
        /\ job_id \notin DOMAIN jobs_store
        /\ jobs_store' = store_set(jobs_store, job_id, NewJob(job_id, mode, extension))
        /\ task' = put(task, job_id, [at |-> "start", mode |-> mode, extension |-> extension])
        /\ expired' = put(expired, job_id, FALSE)
        /\ UNCHANGED <<jobstate, entities_store>>

At(job_id, at) == job_id \in DOMAIN task /\ task[job_id].at = at

Goto(job_id, at) == task' = [task EXCEPT ![job_id].at = at]

\* _process_file: the first update.
ProcessStart ==
    \E job_id \in JobIds :
        /\ At(job_id, "start")
        /\ jobs_store' = store_update(jobs_store, job_id,
                             [mode |-> task[job_id].mode, entities_detected |-> 0,
                              eta |-> None, progress |-> 0, updated_at |-> "start"])
        /\ Goto(job_id, "check")
        /\ UNCHANGED <<jobstate, entities_store, expired>>

\* _process_file: the checks of extension and mode (the size is within the
\* limit, upload_file has refused anything larger), then progress 10.
ProcessCheck ==
    \E job_id \in JobIds :
        /\ At(job_id, "check")
        /\ IF task[job_id].extension \notin ALLOWED_EXTENSIONS
           THEN /\ jobs_store' = store_set(jobs_store, job_id,
                                     ErrorJob("Format non pris en charge", task[job_id].mode))
                /\ Goto(job_id, "ended")
           ELSE IF task[job_id].mode \notin Modes
           THEN /\ jobs_store' = store_set(jobs_store, job_id,
                                     ErrorJob("Mode inconnu", task[job_id].mode))
                /\ Goto(job_id, "ended")
           ELSE /\ jobs_store' = store_update(jobs_store, job_id,
                                     [progress |-> 10, eta |-> Some(1), updated_at |-> "check"])
                /\ Goto(job_id, "anonymize")
        /\ UNCHANGED <<jobstate, entities_store, expired>>

\* _process_file: anonymize_docx / anonymize_pdf returns, then progress 60.
ProcessAnonymize ==
    \E job_id \in JobIds :
        /\ At(job_id, "anonymize")
        /\ jobs_store' = store_update(jobs_store, job_id,
                             [progress |-> 60, eta |-> Some(1), updated_at |-> "anonymize"])
        /\ Goto(job_id, "detected")
        /\ UNCHANGED <<jobstate, entities_store, expired>>

\* _process_file: the entities are merged, then progress 90.
ProcessDetected ==
    \E job_id \in JobIds :
        /\ At(job_id, "detected")
        /\ jobs_store' = store_update(jobs_store, job_id,
                             [progress |-> 90, eta |-> Some(1), updated_at |-> "detected"])
        /\ Goto(job_id, "save")
        /\ UNCHANGED <<jobstate, entities_store, expired>>

\* _process_file: entities_store.set(job_id, entities_data)
ProcessSave ==
    \E job_id \in JobIds :
        /\ At(job_id, "save")
        /\ entities_store' = store_set(entities_store, job_id, DetectedData)
        /\ Goto(job_id, "count")
        /\ UNCHANGED <<jobstate, jobs_store, expired>>

\* _process_file: jobs_store.update(job_id, {"entities_detected": len(entities)})
ProcessCount ==
    \E job_id \in JobIds :
        /\ At(job_id, "count")
        /\ jobs_store' = store_update(jobs_store, job_id, [entities_detected |-> 1])
        /\ Goto(job_id, "complete")
        /\ UNCHANGED <<jobstate, entities_store, expired>>

\* _process_file: the last update.
ProcessComplete ==
    \E job_id \in JobIds :
        /\ At(job_id, "complete")
        /\ jobs_store' = store_update(jobs_store, job_id,
                             [status |-> "completed", progress |-> 100,
                              result |-> [document_type |-> task[job_id].extension],
                              eta |-> Some(0), updated_at |-> "complete"])
        /\ Goto(job_id, "ended")
        /\ UNCHANGED <<jobstate, entities_store, expired>>

\* _process_file: the handler of "except Exception".  The anonymizer raises
\* on a file it cannot open, writing the output files can fail.
ProcessRaise ==
    \E job_id \in JobIds :
        /\ At(job_id, "anonymize") \/ At(job_id, "detected")
        /\ jobs_store' = store_set(jobs_store, job_id,
                             ErrorJob("exception", task[job_id].mode))
        /\ Goto(job_id, "ended")
        /\ UNCHANGED <<jobstate, entities_store, expired>>

\* Thirty minutes have passed since the job was created.
Expire ==
    \E job_id \in JobIds :
        /\ job_id \in DOMAIN expired
        /\ ~expired[job_id]
        /\ expired' = [expired EXCEPT ![job_id] = TRUE]
        /\ UNCHANGED <<jobstate, jobs_store, entities_store, task>>

\* GET /status/{job_id} on a job in processing for more than 30 minutes (any
\* other call leaves the store as it is).
get_status ==
    \E job_id \in JobIds :
        /\ job_id \in DOMAIN jobs_store
        /\ HasStatus(jobs_store[job_id], "processing")
        /\ "created_at" \in DOMAIN jobs_store[job_id]
        /\ expired[job_id]
        /\ jobs_store' = store_set(jobs_store, job_id,
                             merge(jobs_store[job_id],
                                   [status |-> "error",
                                    message |-> "Delai de traitement depasse"]))
        /\ UNCHANGED <<jobstate, entities_store, task, expired>>

\* The jobs clear_stuck_jobs marks.
Stuck(job_id) ==
    /\ HasStatus(jobs_store[job_id], "processing")
    /\ "created_at" \in DOMAIN jobs_store[job_id]
    /\ expired[job_id]

\* POST /admin/clear-stuck-jobs
clear_stuck_jobs ==
    /\ \E job_id \in DOMAIN jobs_store : Stuck(job_id)
    /\ jobs_store' =
          [job_id \in DOMAIN jobs_store |->
              IF Stuck(job_id)
              THEN merge(jobs_store[job_id],
                         [status |-> "error",
                          message |-> "Job interrompu (nettoyage administratif)",
                          updated_at |-> "clear"])
              ELSE jobs_store[job_id]]
    /\ UNCHANGED <<jobstate, entities_store, task, expired>>

\* The shutdown handler: every job in processing is marked.
shutdown_event ==
    /\ \E job_id \in DOMAIN jobs_store : HasStatus(jobs_store[job_id], "processing")
    /\ jobs_store' =
          [job_id \in DOMAIN jobs_store |->
              IF HasStatus(jobs_store[job_id], "processing")
              THEN merge(jobs_store[job_id],
                         [status |-> "error", message |-> "Arret du serveur",
                          updated_at |-> "shutdown"])
              ELSE jobs_store[job_id]]
    /\ UNCHANGED <<jobstate, entities_store, task, expired>>

JobNext ==
    \/ upload_file
    \/ ProcessStart
    \/ ProcessCheck
    \/ ProcessAnonymize
    \/ ProcessDetected
    \/ ProcessSave
    \/ ProcessCount
    \/ ProcessComplete
    \/ ProcessRaise
    \/ Expire
    \/ get_status
    \/ clear_stuck_jobs
    \/ shutdown_event

JobSpec == ServeInit /\ [][JobNext]_vars

\* C29: a job whose stored status is "error" is never afterwards stored with
\* the status "completed" or "processing".
C29_ErrorIsTerminal ==
    [][ \A job_id \in DOMAIN jobs_store :
          HasStatus(jobs_store[job_id], "error") =>
              /\ ~HasStatus(jobs_store'[job_id], "completed")
              /\ ~HasStatus(jobs_store'[job_id], "processing") ]_vars

\* The fields JobStatus requires.
Required ==
    {"id", "status", "progress", "mode", "entities_detected", "created_at", "updated_at"}

\* C30: every record of the job store holds the fields JobStatus requires.
C30_WellFormed ==
    \A job_id \in DOMAIN jobs_store : Required \subseteq DOMAIN jobs_store[job_id]

====
